---- MODULE Spec2Model ----
(***************************************************************************)
(* Model of keybase/go-keychain, package secretservice: the client of the  *)
(* D-Bus Secret Service (operations, prompt wait, session negotiation) and *)
(* the Diffie-Hellman group used to secure the channel.                    *)
(***************************************************************************)
EXTENDS Integers, Sequences, FiniteSets, TLC

VARIABLES
    pc,         \* per caller: position inside the operation it is running
    op,         \* per caller: the operation being run
    prompt,     \* per caller: prompt handle the daemon returned to the call
    pstate,     \* per caller: state of the prompt state machine
    timerAge,   \* per caller: time since the select's time.After was created
    elapsed,    \* per caller: time since the wait loop was entered
    pwRet,      \* per caller: (paths, err) returned by PromptAndWait
    opRet,      \* per caller: (item, err) returned by the operation
    hist,       \* per caller: what the running operation has done so far
    signalCh,   \* SecretService.signalCh, shared by every caller
    daemon,     \* the Secret Service daemon: prompts handed out and shown
    budget,     \* per caller: operations it may still start
    dh,         \* an evaluation of dhGroup.diffieHellman / keygen
    sess,       \* an evaluation of OpenSession
    kx,         \* a key agreement between two keypairs
    pk,         \* an evaluation of padPKCS7 / unpadPKCS7
    aes,        \* the encryptions and decryptions made with one key
    keyring,    \* a session with the daemon's collection: store, search, fetch
    sessions,   \* the sessions opened on one service and the secrets made on them
    keychain,   \* the platform keychain and the last call made on it
    kcItem      \* a keychain Item under construction: its attr map

svcVars == <<pc, op, prompt, pstate, timerAge, elapsed, pwRet, opRet, hist,
             signalCh, daemon, budget>>
vars == <<pc, op, prompt, pstate, timerAge, elapsed, pwRet, opRet, hist,
          signalCh, daemon, budget, dh, sess, kx, pk, aes, keyring,
          sessions, keychain, kcItem>>

\* the variables of the evaluations of the cryptographic functions and of the
\* keyring run
cryptoVars == <<kx, pk, aes, keyring>>

-----------------------------------------------------------------------------
(* Bounds of the model *)

\* operations the caller of a service runs one after the other
MaxOps == 2

\* signals the bus delivers over the lifetime of the service
MaxSignals == 2

\* granularity of the clock
TickStep == 10

\* time a wait is followed for
MaxElapsed == 40

-----------------------------------------------------------------------------
(* Program constants *)

NullPrompt == "/"

DefaultCollection == "/org/freedesktop/secrets/aliases/default"

PromptCompleted == "org.freedesktop.Secret.Prompt.Completed"

\* a signal of the bus that is not Prompt.Completed
OtherSignalName == "org.freedesktop.Secret.Collection.ItemCreated"

\* time.After(30 * time.Second)
PromptTimeout == 30

\* make(chan *dbus.Signal, 16)
SignalChCap == 16

Ops == {"CreateItem", "DeleteItem", "Unlock", "LockItems"}

-----------------------------------------------------------------------------
(* Errors: a Go error is modelled as the chain of its layers, outermost     *)
(* first; the nil error is the empty chain.                                 *)

Nil == << >>

\* errors.New(msg)
New(msg) == << [type |-> "fundamental", msg |-> msg] >>

\* an error returned by the D-Bus connection for a failed call
DBusError == << [type |-> "dbus.Error", msg |-> "org.freedesktop.DBus.Error.Failed"] >>

\* errors.Wrap(err, msg): nil when err is nil
Wrap(err, msg) ==
    IF err = Nil THEN Nil ELSE << [type |-> "withStack", msg |-> msg] >> \o err

\* PromptDismissedError{err}
PromptDismissedError(err) == << [type |-> "PromptDismissedError", msg |-> ""] >> \o err

\* errors.Cause(err): the innermost layer
Cause(err) == err[Len(err)]

-----------------------------------------------------------------------------
(* Signals *)

NoPaths == ""

PathsValues == {"[/item/1]", "[/item/2]"}

\* body of a signal as dbus.Store sees it: ok is whether it unmarshals into
\* (bool, variant)
MalformedBody == [ok |-> FALSE, dismissed |-> FALSE, paths |-> NoPaths]

DismissedBody == [ok |-> TRUE, dismissed |-> TRUE, paths |-> NoPaths]

CompletedBody(v) == [ok |-> TRUE, dismissed |-> FALSE, paths |-> v]

CompletedBodies == {MalformedBody, DismissedBody} \cup {CompletedBody(v) : v \in PathsValues}

Signal(name, path, body) == [name |-> name, path |-> path, body |-> body]

NoSignal == Signal("", "", MalformedBody)

\* the prompt handles the daemon hands out, in the order it hands them out
PromptPaths == << "/org/freedesktop/secrets/prompt/p1", "/org/freedesktop/secrets/prompt/p2",
                  "/org/freedesktop/secrets/prompt/p3", "/org/freedesktop/secrets/prompt/p4",
                  "/org/freedesktop/secrets/prompt/p5", "/org/freedesktop/secrets/prompt/p6" >>

ItemPath == "/org/freedesktop/secrets/collection/login/1"

NoItem == ""

-----------------------------------------------------------------------------
(* Pure parts of the operations *)

\* the message an operation wraps a failed call with
FailMsg(o) ==
    CASE o = "CreateItem" -> "failed to create item"
      [] o = "DeleteItem" -> "failed to delete item"
      [] o = "Unlock"     -> "failed to unlock items"
      [] o = "LockItems"  -> "failed to lock items"

PwReturn(paths, err, state) == [paths |-> paths, err |-> err, state |-> state]

\* PromptAndWaitEntry without the test for the null prompt
PromptAndWaitEntry_NoNullCheck(p, callOk) ==
    IF ~callOk
      THEN [begins |-> 1, waits |-> FALSE,
            ret |-> PwReturn(NoPaths, Nil, "BeginFailed")]
      ELSE [begins |-> 1, waits |-> TRUE, ret |-> PwReturn(NoPaths, Nil, "Prompting")]

\* PromptAndWaitEntry that makes the Prompt.Prompt call again when it failed
PromptAndWaitEntry_Retries(p, callOk) ==
    IF p = NullPrompt
      THEN [begins |-> 0, waits |-> FALSE, ret |-> PwReturn(NoPaths, Nil, "NoPromptNeeded")]
    ELSE IF ~callOk
      THEN [begins |-> 2, waits |-> FALSE,
            ret |-> PwReturn(NoPaths, Wrap(Nil, "failed to prompt"), "BeginFailed")]
    ELSE [begins |-> 1, waits |-> TRUE, ret |-> PwReturn(NoPaths, Nil, "Prompting")]

\* PromptAndWait up to its wait loop, for prompt handle p, where callOk is
\* whether the Prompt.Prompt call succeeds if it is made.  begins is the number
\* of Prompt.Prompt calls made, waits is whether the wait loop is entered, and
\* ret is what is returned if it is not.  A failed call returns
\* errors.Wrap(err, ...) of the named result err, which is still nil there (it
\* is not call.Err).
PromptAndWaitEntry(p, callOk) ==
    IF p = NullPrompt
      THEN [begins |-> 0, waits |-> FALSE, ret |-> PwReturn(NoPaths, Nil, "NoPromptNeeded")]
    ELSE IF ~callOk
      THEN LET err == Nil IN
           [begins |-> 1, waits |-> FALSE,
            ret |-> PwReturn(NoPaths, Wrap(err, "failed to prompt"), "BeginFailed")]
    ELSE [begins |-> 1, waits |-> TRUE, ret |-> PwReturn(NoPaths, Nil, "Prompting")]

\* a receive that leaves the signal in the channel for the next receiver
ChanRecv_Peek(ch) == ch

\* PromptAndWait, `case signal := <-s.signalCh`: the channel after the receive
ChanRecv(ch) == Tail(ch)

\* PromptAndWait, the age of the timer the select waits on after the loop has
\* gone round: time.After is evaluated anew by every iteration
NextTimerAge(age) == 0

\* PromptAndWait, `signal.Name != "org.freedesktop.Secret.Prompt.Completed"`:
\* whether the loop takes the signal as the completion of its prompt
AcceptsSignal(sig, p) == sig.name = PromptCompleted

\* PromptResult without the test of result.Dismissed
PromptResult_IgnoresDismissed(sig) ==
    IF ~sig.body.ok
      THEN PwReturn(NoPaths, Wrap(New("dbus.Store: type mismatch"),
                                  "failed to unmarshal prompt result"), "DecodeFailed")
      ELSE PwReturn(sig.body.paths, Nil, "Completed")

\* PromptResult that ends a dismissed prompt in a state of its own
PromptResult_DismissedAsCancelled(sig) ==
    IF ~sig.body.ok
      THEN PwReturn(NoPaths, Wrap(New("dbus.Store: type mismatch"),
                                  "failed to unmarshal prompt result"), "DecodeFailed")
    ELSE IF sig.body.dismissed
      THEN PwReturn(NoPaths, PromptDismissedError(New("prompt dismissed")), "Cancelled")
    ELSE PwReturn(sig.body.paths, Nil, "Completed")

\* PromptAndWait, the outcome of an accepted signal
PromptResult(sig) ==
    IF ~sig.body.ok
      THEN PwReturn(NoPaths, Wrap(New("dbus.Store: type mismatch"),
                                  "failed to unmarshal prompt result"), "DecodeFailed")
    ELSE IF sig.body.dismissed
      THEN PwReturn(NoPaths, PromptDismissedError(New("prompt dismissed")), "Dismissed")
    ELSE PwReturn(sig.body.paths, Nil, "Completed")

\* PromptAndWait, `case <-time.After(30 * time.Second)`
PromptTimedOut == PwReturn(NoPaths, New("prompt timed out"), "TimedOut")

\* what the operation returns once PromptAndWait has returned pw
OpResult(o, it, pw) ==
    CASE o = "CreateItem" ->
           IF pw.err # Nil THEN [item |-> NoItem, err |-> pw.err]
                           ELSE [item |-> it, err |-> Nil]
      [] o = "DeleteItem" -> [item |-> NoItem, err |-> pw.err]
      [] o \in {"Unlock", "LockItems"} ->
           [item |-> NoItem, err |-> Wrap(pw.err, "failed to prompt")]

\* what the operation returns when its own call fails
OpCallFailed(o) == [item |-> NoItem, err |-> Wrap(DBusError, FailMsg(o))]

-----------------------------------------------------------------------------------------------------------------------------------------------------
(* Diffie-Hellman over a group with modular exponentiation, and the key     *)
(* derived from the shared secret.  Big integers are integers; the groups   *)
(* checked are small groups of the same shape as the Second Oakley Group.   *)

\* largest private exponent dhGroup.diffieHellman is evaluated on
MaxPrivate == 6

\* bigOne
bigOne == 1

\* a dhGroup built the way rfc2409SecondOakleyGroup builds its group:
\* generator 2, prime p, pMinus1 = p - bigOne
dhGroup(p) == [g |-> 2, p |-> p, pMinus1 |-> p - bigOne]

\* primes that 2 generates the multiplicative group of
TestPrimes == {11, 19}

\* x.Cmp(y)
Cmp(x, y) == IF x < y THEN -1 ELSE IF x > y THEN 1 ELSE 0

\* new(big.Int).Exp(x, y, m) for y >= 0 and m > 0, by repeated squaring
RECURSIVE Exp(_, _, _)
Exp(x, y, m) ==
    IF y = 0 THEN 1 % m
    ELSE LET h == Exp(x, y \div 2, m)
             sq == (h * h) % m
         IN IF y % 2 = 1 THEN (sq * (x % m)) % m ELSE sq

\* x.Bytes(): the big-endian bytes of |x|, without leading zeros
RECURSIVE Bytes(_)
Bytes(x) ==
    LET a == IF x < 0 THEN 0 - x ELSE x
    IN IF a = 0 THEN << >> ELSE Append(Bytes(a \div 256), a % 256)

DHResult(secret, err) == [secret |-> secret, err |-> err]

\* the nil *big.Int
NoSecret == -1

\* make([]byte, 128)
AesKeyLen == 128

\* the nil key
NoKey == [kdf |-> "", ikm |-> << >>, len |-> 0]

\* io.ReadFull(hkdf.New(sha256.New, secret, nil, nil), key) for a key of n
\* bytes: the bytes are a function of the input keying material and of n
HKDF(ikm, n) == [kdf |-> "HKDF-SHA256", ikm |-> ikm, len |-> n]

\* diffieHellman with the upper bound tested by > instead of >=
diffieHellman_AcceptsPMinus1(group, theirPublic, myPrivate) ==
    IF Cmp(theirPublic, bigOne) <= 0 \/ Cmp(theirPublic, group.pMinus1) > 0
      THEN DHResult(NoSecret, New("ssh: DH parameter out of bounds"))
      ELSE DHResult(Exp(theirPublic, myPrivate, group.p), Nil)

\* diffieHellman with the power reduced modulo p - 1 instead of p
diffieHellman_ModPMinus1(group, theirPublic, myPrivate) ==
    IF Cmp(theirPublic, bigOne) <= 0 \/ Cmp(theirPublic, group.pMinus1) >= 0
      THEN DHResult(NoSecret, New("ssh: DH parameter out of bounds"))
      ELSE DHResult(Exp(theirPublic, myPrivate, group.pMinus1), Nil)

\* dhGroup.diffieHellman
diffieHellman(group, theirPublic, myPrivate) ==
    IF Cmp(theirPublic, bigOne) <= 0 \/ Cmp(theirPublic, group.pMinus1) >= 0
      THEN DHResult(NoSecret, New("ssh: DH parameter out of bounds"))
      ELSE DHResult(Exp(theirPublic, myPrivate, group.p), Nil)

\* keygen that derives the key before it looks at the error of diffieHellman
keygen_DerivesFirst(group, theirPublic, myPrivate) ==
    LET r == diffieHellman(group, theirPublic, myPrivate)
        key == HKDF(Bytes(r.secret), AesKeyLen)
    IN IF r.err # Nil
         THEN [key |-> NoKey, err |-> r.err, hkdfRuns |-> 1]
         ELSE [key |-> key, err |-> Nil, hkdfRuns |-> 1]

\* keygenDHIETF1024SHA256AES128CBCPKCS7; hkdfRuns is the number of key
\* derivations it ran
keygenDHIETF1024SHA256AES128CBCPKCS7(group, theirPublic, myPrivate) ==
    LET r == diffieHellman(group, theirPublic, myPrivate)
    IN IF r.err # Nil
         THEN [key |-> NoKey, err |-> r.err, hkdfRuns |-> 0]
         ELSE [key |-> HKDF(Bytes(r.secret), AesKeyLen), err |-> Nil, hkdfRuns |-> 1]

-----------------------------------------------------------------------------
(* Session negotiation *)

AuthenticationPlain == "plain"

AuthenticationDHAES == "dh-ietf1024-sha256-aes128-cbc-pkcs7"

\* the empty object path OpenSession returns with an error
NoSession == ""

SessionPath == "/org/freedesktop/secrets/session/s1"

\* the peer does not support the mode asked for
NotSupported == << [type |-> "dbus.Error", msg |-> "org.freedesktop.DBus.Error.NotSupported"] >>

\* what comes back from the OpenSession call: kind is "failed" (the call
\* failed on the bus), "rejected" (the peer refused the mode) or "ok", with
\* the peer's output value and the session's path
SessionReply(kind, err, output, session) ==
    [kind |-> kind, err |-> err, output |-> output, session |-> session]

\* the keypair of a private exponent r drawn from [1, p-2]
NewKeypair(group, r) == [private |-> r, public |-> Exp(group.g, r, group.p)]

\* the negotiation payload: empty in plain mode, the public value otherwise
SessionInput(mode, keypair) ==
    IF mode = AuthenticationPlain THEN << >> ELSE Bytes(keypair.public)

\* SecretService.OpenSession, the call and the storing of its reply
SessionCall(reply) ==
    IF reply.kind # "ok"
      THEN [session |-> NoSession,
            err |-> Wrap(reply.err, "failed to open secretservice session")]
      ELSE [session |-> reply.session, err |-> Nil]

SessionResult(session, key, err, hkdfRuns) ==
    [session |-> session, key |-> key, err |-> err, hkdfRuns |-> hkdfRuns]

\* openSession(mode): the call, and in encrypted mode the key agreed with
\* the peer's public value, bound to the session
OpenSession(mode, group, keypair, reply) ==
    LET c == SessionCall(reply)
    IN IF c.err # Nil THEN SessionResult(NoSession, NoKey, c.err, 0)
       ELSE IF mode = AuthenticationPlain THEN SessionResult(c.session, NoKey, Nil, 0)
       ELSE LET k == keygenDHIETF1024SHA256AES128CBCPKCS7(group, reply.output,
                                                          keypair.private)
            IN IF k.err # Nil
                 THEN SessionResult(NoSession, NoKey,
                                    Wrap(k.err, "failed to open secretservice session"),
                                    k.hkdfRuns)
                 ELSE SessionResult(c.session, k.key, Nil, k.hkdfRuns)

-----------------------------------------------------------------------------
(* PKCS#7 padding *)

\* bytes.Repeat([]byte{b}, n)
Repeat(b, n) == [i \in 1 .. n |-> b]

\* padPKCS7 that adds no padding to a buffer of whole blocks
padPKCS7_NoFullBlock(buf, blockSize) ==
    LET padding == (blockSize - (Len(buf) % blockSize)) % blockSize
    IN buf \o Repeat(padding % 256, padding)

\* padPKCS7(buf, blockSize): the padding length, as a byte, repeated that
\* many times after buf
padPKCS7(buf, blockSize) ==
    LET padding == blockSize - (Len(buf) % blockSize)
    IN buf \o Repeat(padding % 256, padding)

UnpadResult(buf, err) == [buf |-> buf, err |-> err]

\* the error of unpadPKCS7
PaddingError(msg) == << [type |-> "PaddingError", msg |-> msg] >>

\* the number of bytes at the end of buf that are equal to b
RECURSIVE TrailingRun(_, _)
TrailingRun(buf, b) ==
    IF buf = << >> \/ buf[Len(buf)] # b
      THEN 0
      ELSE 1 + TrailingRun(SubSeq(buf, 1, Len(buf) - 1), b)

\* unpadPKCS7 that removes every trailing byte equal to the last one
unpadPKCS7_StripsRun(buf, blockSize) ==
    IF Len(buf) = 0 THEN UnpadResult(<< >>, PaddingError("empty buffer"))
    ELSE IF Len(buf) % blockSize # 0
      THEN UnpadResult(<< >>, PaddingError("length is not a multiple of the block size"))
    ELSE LET n == buf[Len(buf)] IN
         IF n = 0 \/ n > Len(buf) \/ TrailingRun(buf, n) < n
           THEN UnpadResult(<< >>, PaddingError("invalid padding"))
           ELSE UnpadResult(SubSeq(buf, 1, Len(buf) - TrailingRun(buf, n)), Nil)

\* unpadPKCS7 that trusts the last byte without looking at the bytes before it
unpadPKCS7_TrustsLastByte(buf, blockSize) ==
    IF Len(buf) = 0 THEN UnpadResult(<< >>, PaddingError("empty buffer"))
    ELSE IF Len(buf) % blockSize # 0
      THEN UnpadResult(<< >>, PaddingError("length is not a multiple of the block size"))
    ELSE LET n == buf[Len(buf)] IN
         IF n = 0 \/ n > Len(buf)
           THEN UnpadResult(<< >>, PaddingError("invalid padding"))
           ELSE UnpadResult(SubSeq(buf, 1, Len(buf) - n), Nil)

\* unpadPKCS7(buf, blockSize): fails on an empty buffer, on a length that is
\* not a multiple of the block size and on a last byte n that is not followed
\* back by n bytes equal to n; otherwise buf without its last n bytes
unpadPKCS7(buf, blockSize) ==
    IF Len(buf) = 0 THEN UnpadResult(<< >>, PaddingError("empty buffer"))
    ELSE IF Len(buf) % blockSize # 0
      THEN UnpadResult(<< >>, PaddingError("length is not a multiple of the block size"))
    ELSE LET n == buf[Len(buf)] IN
         IF n = 0 \/ n > Len(buf) \/ TrailingRun(buf, n) < n
           THEN UnpadResult(<< >>, PaddingError("invalid padding"))
           ELSE UnpadResult(SubSeq(buf, 1, Len(buf) - n), Nil)

\* pkcs7tests: the table of TestPKCS7, for block size 4
pkcs7tests ==
    { [in |-> << >>,                  out |-> <<4, 4, 4, 4>>],
      [in |-> <<1, 2>>,               out |-> <<1, 2, 2, 2>>],
      [in |-> <<1, 2, 3>>,            out |-> <<1, 2, 3, 1>>],
      [in |-> <<1, 2, 3, 4>>,         out |-> <<1, 2, 3, 4, 4, 4, 4, 4>>],
      [in |-> <<1, 2, 3, 4, 5>>,      out |-> <<1, 2, 3, 4, 5, 3, 3, 3>>],
      [in |-> <<1, 2, 3, 4, 1, 1, 1>>, out |-> <<1, 2, 3, 4, 1, 1, 1, 1>>] }

\* the buffers TestPKCS7 requires unpadPKCS7 to fail on, for block size 4
pkcs7bad == { << >>, <<1, 2, 3, 4>>, <<1, 2, 3, 3>>, <<1, 2, 3, 4, 1, 1, 1, 2>> }

\* the block size TestPKCS7 pads to
TestBlockSize == 4

-----------------------------------------------------------------------------
(* The cipher: AES-128 in CBC mode over PKCS#7 padded plaintext.  The block *)
(* permutation of AES is stood for by a permutation of the blocks that the  *)
(* key selects; padding, chaining and the IV are computed as they are.      *)

\* aes.BlockSize
BlockSize == 16

\* the key size of AES-128, the only one the cipher is set up with
AES128KeySize == 16

\* the exclusive or of two bytes
RECURSIVE Xor(_, _)
Xor(a, b) ==
    IF a = 0 THEN b
    ELSE IF b = 0 THEN a
    ELSE ((a + b) % 2) + 2 * Xor(a \div 2, b \div 2)

XorBlock(x, y) == [i \in 1 .. Len(x) |-> Xor(x[i], y[i])]

\* block.Encrypt: a permutation of the blocks for every key
EncryptBlock(key, b) == [i \in 1 .. Len(b) |-> (b[i] + key[i] + i) % 256]

\* block.Decrypt: the inverse permutation
DecryptBlock(key, c) == [i \in 1 .. Len(c) |-> (c[i] + 512 - key[i] - i) % 256]

\* cipher.NewCBCEncrypter(block, iv).CryptBlocks
RECURSIVE CBCEncrypt(_, _, _)
CBCEncrypt(key, prev, buf) ==
    IF buf = << >> THEN << >>
    ELSE LET c == EncryptBlock(key, XorBlock(SubSeq(buf, 1, BlockSize), prev))
         IN c \o CBCEncrypt(key, c, SubSeq(buf, BlockSize + 1, Len(buf)))

\* cipher.NewCBCDecrypter(block, iv).CryptBlocks
RECURSIVE CBCDecrypt(_, _, _)
CBCDecrypt(key, prev, buf) ==
    IF buf = << >> THEN << >>
    ELSE LET c == SubSeq(buf, 1, BlockSize)
         IN XorBlock(DecryptBlock(key, c), prev)
              \o CBCDecrypt(key, c, SubSeq(buf, BlockSize + 1, Len(buf)))

\* what a read of BlockSize bytes from crypto/rand gives: ok is whether the
\* source could be read
RandRead(ok, bytes) == [ok |-> ok, bytes |-> bytes]

\* the bytes of the n-th successful read of crypto/rand: a read never gives
\* the bytes of an earlier read
RandBytes(n) == [i \in 1 .. BlockSize |-> (37 * n + i) % 256]

\* a failed read of crypto/rand
RandFailed == RandRead(FALSE, << >>)

EncryptResult(iv, ciphertext, err) == [iv |-> iv, ciphertext |-> ciphertext, err |-> err]

\* the key is not one AES-128 can be set up with
KeySizeError == New("crypto/aes: invalid key size")

\* unauthenticatedAESCBCEncrypt(plaintext, key) with the outcome rnd of its
\* read of crypto/rand: the IV read and the CBC encryption of the padded
\* plaintext under it
unauthenticatedAESCBCEncrypt(plaintext, key, rnd) ==
    IF Len(key) # AES128KeySize THEN EncryptResult(<< >>, << >>, KeySizeError)
    ELSE IF ~rnd.ok
      THEN EncryptResult(<< >>, << >>, Wrap(New("crypto/rand: read failed"),
                                            "failed to generate iv"))
    ELSE EncryptResult(rnd.bytes,
                       CBCEncrypt(key, rnd.bytes, padPKCS7(plaintext, BlockSize)), Nil)

DecryptResult(plaintext, err) == [plaintext |-> plaintext, err |-> err]

\* unauthenticatedAESCBCDecrypt(iv, ciphertext, key): the CBC decryption with
\* its padding removed
unauthenticatedAESCBCDecrypt(iv, ciphertext, key) ==
    IF Len(key) # AES128KeySize THEN DecryptResult(<< >>, KeySizeError)
    ELSE IF Len(iv) # BlockSize THEN DecryptResult(<< >>, New("invalid iv size"))
    ELSE IF Len(ciphertext) % BlockSize # 0
      THEN DecryptResult(<< >>, New("ciphertext is not a multiple of the block size"))
    ELSE LET u == unpadPKCS7(CBCDecrypt(key, iv, ciphertext), BlockSize)
         IN DecryptResult(u.buf, u.err)

\* UnauthenticatedAESEncrypt(plaintext, key) as the source has it:
\* `return nil, nil`, no ciphertext and no error
UnauthenticatedAESEncrypt(plaintext, key) == [ciphertext |-> << >>, err |-> Nil]

\* []byte("YELLOW SUBMARINE")
YellowSubmarine == <<89, 69, 76, 76, 79, 87, 32, 83, 85, 66, 77, 65, 82, 73, 78, 69>>

\* []byte("hello world")
HelloWorld == <<104, 101, 108, 108, 111, 32, 119, 111, 114, 108, 100>>

-----------------------------------------------------------------------------
(* Secrets on the bus, and the daemon's collection *)

\* the Secret struct: Session, Parameters, Value, ContentType
Secret(session, parameters, value, contentType) ==
    [Session |-> session, Parameters |-> parameters, Value |-> value,
     ContentType |-> contentType]

\* the zero Secret
NoSecretValue == Secret(NoSession, << >>, << >>, "")

\* a Secret for a session without a key: no parameters, the plaintext as value
PlainSecret(session, plaintext) == Secret(session, << >>, plaintext, "text/plain")

\* the bytes of a key read from HKDF: the first n bytes of a stream that the
\* input keying material decides
KeyBytes(key) ==
    [i \in 1 .. key.len |->
        ((IF key.ikm = << >> THEN 0 ELSE key.ikm[Len(key.ikm)]) + 17 * i) % 256]

SecretResult(secret, err) == [secret |-> secret, err |-> err]

\* session.NewSecret(plaintext) for the session and its key, with the
\* outcome rnd of the read of crypto/rand: the plaintext itself on a session
\* without a key, its encryption under the session's key otherwise
NewSecret(session, key, plaintext, rnd) ==
    IF key = NoKey THEN SecretResult(PlainSecret(session, plaintext), Nil)
    ELSE LET e == unauthenticatedAESCBCEncrypt(plaintext, KeyBytes(key), rnd)
         IN IF e.err # Nil
              THEN SecretResult(NoSecretValue, Wrap(e.err, "failed to encrypt secret"))
              ELSE SecretResult(Secret(session, e.iv, e.ciphertext, "text/plain"), Nil)

\* the plaintext of a secret for the holder of the session's key
OpenSecret(key, secret) ==
    IF key = NoKey THEN DecryptResult(secret.Value, Nil)
    ELSE unauthenticatedAESCBCDecrypt(secret.Parameters, secret.Value, KeyBytes(key))

\* the key the peer derives for the session from the client's public value
\* and its own private exponent: 16 bytes of HKDF-SHA256 over the shared
\* secret, and no key for a public value out of range
PeerKey(group, clientPublic, peerPrivate) ==
    LET r == diffieHellman(group, clientPublic, peerPrivate)
    IN IF r.err # Nil THEN NoKey ELSE HKDF(Bytes(r.secret), AES128KeySize)

\* what comes back from a call that returns a value: kind is "failed" (the
\* call failed on the bus), "malformed" (the body does not unmarshal) or
\* "ok", with the body
CallReply(kind, body) == [kind |-> kind, body |-> body]

\* GetSecret that stores the value into Parameters and the parameters into
\* Value
GetSecret_SwapsFields(reply) ==
    IF reply.kind = "failed"
      THEN SecretResult(NoSecretValue, Wrap(DBusError, "failed to get secret"))
    ELSE IF reply.kind = "malformed"
      THEN SecretResult(NoSecretValue, Wrap(New("dbus.Store: type mismatch"),
                                            "failed to unmarshal get secret result"))
    ELSE SecretResult(Secret(reply.body[1], reply.body[3], reply.body[2], reply.body[4]), Nil)

\* SecretService.GetSecret: the Secret the peer answered with
GetSecret(reply) ==
    IF reply.kind = "failed"
      THEN SecretResult(NoSecretValue, Wrap(DBusError, "failed to get secret"))
    ELSE IF reply.kind = "malformed"
      THEN SecretResult(NoSecretValue, Wrap(New("dbus.Store: type mismatch"),
                                            "failed to unmarshal get secret result"))
    ELSE SecretResult(Secret(reply.body[1], reply.body[2], reply.body[3], reply.body[4]), Nil)

\* SecretService.SearchCollection: the items the peer answered with
SearchCollection(reply) ==
    IF reply.kind # "ok"
      THEN [items |-> {}, err |-> Wrap(DBusError, "failed to search collection")]
      ELSE [items |-> reply.body, err |-> Nil]

-----------------------------------------------------------------------------
(* State of the service *)

NoHist == [requests |-> 0, begins |-> 0, recvs |-> 0, timers |-> 0,
           endedBy |-> NoSignal, ipcFailed |-> FALSE]

NoPwRet == PwReturn(NoPaths, Nil, "None")

NoOpRet == [item |-> NoItem, err |-> Nil]

\* the goroutines calling into the service
Callers == DOMAIN pc

\* the service after NewService, with the callers of b about to use it, each
\* for b[c] operations
InitSvc(b) ==
    /\ budget = b
    /\ pc = [c \in DOMAIN b |-> "idle"]
    /\ op = [c \in DOMAIN b |-> "none"]
    /\ prompt = [c \in DOMAIN b |-> NullPrompt]
    /\ pstate = [c \in DOMAIN b |-> "None"]
    /\ timerAge = [c \in DOMAIN b |-> 0]
    /\ elapsed = [c \in DOMAIN b |-> 0]
    /\ pwRet = [c \in DOMAIN b |-> NoPwRet]
    /\ opRet = [c \in DOMAIN b |-> NoOpRet]
    /\ hist = [c \in DOMAIN b |-> NoHist]
    /\ signalCh = << >>
    /\ daemon = [prompts |-> 0, shown |-> {}, signals |-> 0]

\* an evaluation of the DH functions: the arguments and what was returned
DHCall(phase, group, theirPublic, myPrivate, ret) ==
    [phase |-> phase, group |-> group, theirPublic |-> theirPublic,
     myPrivate |-> myPrivate, ret |-> ret]

NoDHRet == [secret |-> NoSecret, key |-> NoKey, err |-> Nil, hkdfRuns |-> 0]

\* no evaluation of the DH functions
NoDH == DHCall("off", dhGroup(2), 0, 0, NoDHRet)

\* an OpenSession: its arguments, the peer's reply and what it returned
SessionOpening(phase, mode, group, keypair, input, reply, ret) ==
    [phase |-> phase, mode |-> mode, group |-> group, keypair |-> keypair,
     input |-> input, reply |-> reply, ret |-> ret]

NoKeypair == [private |-> 0, public |-> 0]

NoReply == SessionReply("none", Nil, 0, NoSession)

NoSessionResult == SessionResult(NoSession, NoKey, Nil, 0)

\* no OpenSession
NoSess == SessionOpening("off", AuthenticationPlain, dhGroup(2), NoKeypair, << >>,
                         NoReply, NoSessionResult)

\* a key agreement between two keypairs of a group: what each side got from
\* the public value of the other
KeyAgreement(phase, group, mine, theirs, myRet, theirRet) ==
    [phase |-> phase, group |-> group, mine |-> mine, theirs |-> theirs,
     myRet |-> myRet, theirRet |-> theirRet]

\* no key agreement
NoKx == KeyAgreement("off", dhGroup(2), NoKeypair, NoKeypair, NoDHRet, NoDHRet)

\* an evaluation of padPKCS7 and unpadPKCS7: the buffer and block size given,
\* the padded buffer and what unpadPKCS7 returned
PadCall(phase, buf, blockSize, padded, ret) ==
    [phase |-> phase, buf |-> buf, blockSize |-> blockSize, padded |-> padded, ret |-> ret]

\* no evaluation of padPKCS7 / unpadPKCS7
NoPk == PadCall("off", << >>, 1, << >>, UnpadResult(<< >>, Nil))

\* no decryption
NoDec == [of |-> 0, ret |-> DecryptResult(<< >>, Nil)]

\* the encryptions made with a key, in order, and the last decryption
NoAes == [phase |-> "off", key |-> << >>, log |-> << >>, dec |-> NoDec]

\* the items of a search that was not made
NoFound == [items |-> {}, err |-> Nil]

\* a run against the daemon's collection that has not begun
NoKeyring ==
    [phase |-> "off", mode |-> AuthenticationPlain, input |-> << >>,
     session |-> NoSession, key |-> NoKey, peerKey |-> NoKey,
     plaintext |-> << >>, sealed |-> SecretResult(NoSecretValue, Nil),
     items |-> {}, before |-> 0, pstate |-> "None", created |-> NoOpRet,
     found |-> NoFound, fetched |-> SecretResult(NoSecretValue, Nil),
     got |-> DecryptResult(<< >>, Nil), reads |-> 0]

\* nothing is being evaluated and no run against the collection is going on
CryptoIdle == kx = NoKx /\ pk = NoPk /\ aes = NoAes /\ keyring = NoKeyring

\* a Session: the path the daemon gave it and the key bound to it, NoKey in
\* plain mode
Session(path, key) == [path |-> path, key |-> key]

\* no call made on a session yet
NoSessionCall ==
    [op |-> "none", session |-> 0, key |-> NoKey, plaintext |-> << >>,
     made |-> SecretResult(NoSecretValue, Nil), opened |-> DecryptResult(<< >>, Nil),
     err |-> Nil]

\* the sessions opened on a service, in the order they were opened, the number
\* of secrets made on them and the last call
NoSessions ==
    [phase |-> "off", group |-> dhGroup(2), opened |-> << >>, secrets |-> 0,
     last |-> NoSessionCall]

\* the platform keychain: the generic-password items it holds, the number of
\* calls made on it and the last call: its query, the items before it, the
\* error and the data it returned
NoKeychainCall ==
    [op |-> "none", query |-> << >>, before |-> {}, err |-> Nil,
     got |-> [isNil |-> TRUE, bytes |-> << >>]]

NoKeychain == [phase |-> "off", items |-> {}, calls |-> 0, last |-> NoKeychainCall]

\* a keychain Item: its attr map, the attr map before the last call, the
\* number of calls made on it and the last call with the error it returned
NoItemCall == [op |-> "none", accessible |-> 0, flags |-> "", outcome |-> "", err |-> Nil]

NoItemState == [phase |-> "off", attr |-> [k \in {} |-> ""], before |-> [k \in {} |-> ""],
                calls |-> 0, last |-> NoItemCall]

\* no sessions are followed, and neither the keychain nor an Item is in use
KeychainIdle == sessions = NoSessions /\ keychain = NoKeychain /\ kcItem = NoItemState

\* one caller uses the service, one operation at a time
Init ==
    InitSvc([c \in {"c1"} |-> MaxOps]) /\ dh = NoDH /\ sess = NoSess /\ CryptoIdle
    /\ KeychainIdle

\* two goroutines use the service at the same time, each for one operation
InitConcurrent ==
    InitSvc([c \in {"c1", "c2"} |-> 1]) /\ dh = NoDH /\ sess = NoSess /\ CryptoIdle
    /\ KeychainIdle

-----------------------------------------------------------------------------
(* The operations CreateItem, DeleteItem, Unlock and LockItems.  A caller   *)
(* is "idle" before its first operation, "waiting" inside the select of     *)
(* PromptAndWait and "done" once the operation has returned.                *)

\* a caller may start an operation
CanStart(c) == pc[c] \in {"idle", "done"} /\ budget[c] > 0

\* the item path the daemon answers a call with
ReplyItem(o) == IF o = "CreateItem" THEN ItemPath ELSE NoItem

\* the operation's own call fails and the operation returns
OpCallFails(c, o) ==
    /\ CanStart(c)
    /\ budget' = [budget EXCEPT ![c] = @ - 1]
    /\ op' = [op EXCEPT ![c] = o]
    /\ prompt' = [prompt EXCEPT ![c] = NullPrompt]
    /\ pstate' = [pstate EXCEPT ![c] = "None"]
    /\ hist' = [hist EXCEPT ![c] = [NoHist EXCEPT !.requests = 1, !.ipcFailed = TRUE]]
    /\ pwRet' = [pwRet EXCEPT ![c] = NoPwRet]
    /\ opRet' = [opRet EXCEPT ![c] = OpCallFailed(o)]
    /\ timerAge' = [timerAge EXCEPT ![c] = 0]
    /\ elapsed' = [elapsed EXCEPT ![c] = 0]
    /\ pc' = [pc EXCEPT ![c] = "done"]
    /\ UNCHANGED <<signalCh, daemon, dh, sess, kx, pk, aes, keyring, sessions, keychain, kcItem>>

\* the daemon answers the call with a prompt handle, the null prompt or, if
\* fresh, a new prompt; callOk is whether the Prompt.Prompt call succeeds if
\* PromptAndWait makes it.  The caller enters the wait loop, or PromptAndWait
\* and the operation return.
OpCall(c, o, fresh, callOk) ==
    /\ CanStart(c)
    /\ fresh => daemon.prompts < Len(PromptPaths)
    /\ budget' = [budget EXCEPT ![c] = @ - 1]
    /\ op' = [op EXCEPT ![c] = o]
    /\ LET p == IF fresh THEN PromptPaths[daemon.prompts + 1] ELSE NullPrompt
           e == PromptAndWaitEntry(p, callOk) IN
         /\ prompt' = [prompt EXCEPT ![c] = p]
         /\ pstate' = [pstate EXCEPT ![c] = e.ret.state]
         /\ hist' = [hist EXCEPT ![c] =
                       [NoHist EXCEPT !.requests = 1, !.begins = e.begins,
                                      !.timers = IF e.waits THEN 1 ELSE 0,
                                      !.ipcFailed = (e.begins > 0 /\ ~callOk)]]
         /\ pwRet' = [pwRet EXCEPT ![c] = e.ret]
         /\ opRet' = [opRet EXCEPT ![c] =
                        IF e.waits THEN NoOpRet ELSE OpResult(o, ReplyItem(o), e.ret)]
         /\ pc' = [pc EXCEPT ![c] = IF e.waits THEN "waiting" ELSE "done"]
         /\ daemon' = [daemon EXCEPT !.prompts = IF fresh THEN @ + 1 ELSE @,
                                     !.shown = IF e.begins > 0 /\ callOk
                                                 THEN @ \cup {p} ELSE @]
    /\ timerAge' = [timerAge EXCEPT ![c] = 0]
    /\ elapsed' = [elapsed EXCEPT ![c] = 0]
    /\ UNCHANGED <<signalCh, dh, sess, kx, pk, aes, keyring, sessions, keychain, kcItem>>

\* the select takes a signal the loop skips: the next iteration makes a new timer
RecvSkip(c) ==
    /\ pc[c] = "waiting"
    /\ signalCh # << >>
    /\ ~AcceptsSignal(Head(signalCh), prompt[c])
    /\ signalCh' = ChanRecv(signalCh)
    /\ hist' = [hist EXCEPT ![c].recvs = @ + 1, ![c].timers = @ + 1]
    /\ timerAge' = [timerAge EXCEPT ![c] = NextTimerAge(timerAge[c])]
    /\ UNCHANGED <<pc, op, prompt, pstate, elapsed, pwRet, opRet, daemon, budget, dh, sess, kx, pk, aes, keyring, sessions, keychain, kcItem>>

\* the select takes a signal the loop accepts as the completion: PromptAndWait
\* and the operation return
RecvCompleted(c) ==
    /\ pc[c] = "waiting"
    /\ signalCh # << >>
    /\ AcceptsSignal(Head(signalCh), prompt[c])
    /\ signalCh' = ChanRecv(signalCh)
    /\ hist' = [hist EXCEPT ![c].recvs = @ + 1, ![c].endedBy = Head(signalCh)]
    /\ LET r == PromptResult(Head(signalCh)) IN
         /\ pwRet' = [pwRet EXCEPT ![c] = r]
         /\ pstate' = [pstate EXCEPT ![c] = r.state]
         /\ opRet' = [opRet EXCEPT ![c] = OpResult(op[c], ReplyItem(op[c]), r)]
    /\ timerAge' = [timerAge EXCEPT ![c] = 0]
    /\ pc' = [pc EXCEPT ![c] = "done"]
    /\ UNCHANGED <<op, prompt, elapsed, daemon, budget, dh, sess, kx, pk, aes, keyring, sessions, keychain, kcItem>>

\* the select takes the timer: PromptAndWait and the operation return
Timeout(c) ==
    /\ pc[c] = "waiting"
    /\ timerAge[c] >= PromptTimeout
    /\ pwRet' = [pwRet EXCEPT ![c] = PromptTimedOut]
    /\ pstate' = [pstate EXCEPT ![c] = PromptTimedOut.state]
    /\ opRet' = [opRet EXCEPT ![c] = OpResult(op[c], ReplyItem(op[c]), PromptTimedOut)]
    /\ timerAge' = [timerAge EXCEPT ![c] = 0]
    /\ pc' = [pc EXCEPT ![c] = "done"]
    /\ UNCHANGED <<op, prompt, elapsed, hist, signalCh, daemon, budget, dh, sess, kx, pk, aes, keyring, sessions, keychain, kcItem>>

-----------------------------------------------------------------------------
(* The daemon, the bus and the clock *)

\* the daemon reports the end of a prompt it has shown
EmitCompleted(p, body) ==
    /\ p \in daemon.shown
    /\ daemon.signals < MaxSignals
    /\ Len(signalCh) < SignalChCap
    /\ signalCh' = Append(signalCh, Signal(PromptCompleted, p, body))
    /\ daemon' = [daemon EXCEPT !.shown = @ \ {p}, !.signals = @ + 1]
    /\ UNCHANGED <<pc, op, prompt, pstate, timerAge, elapsed, pwRet, opRet, hist,
                   budget, dh, sess, kx, pk, aes, keyring, sessions, keychain, kcItem>>

\* the bus delivers a signal of another name
EmitOther ==
    /\ daemon.signals < MaxSignals
    /\ Len(signalCh) < SignalChCap
    /\ signalCh' = Append(signalCh, Signal(OtherSignalName, DefaultCollection, MalformedBody))
    /\ daemon' = [daemon EXCEPT !.signals = @ + 1]
    /\ UNCHANGED <<pc, op, prompt, pstate, timerAge, elapsed, pwRet, opRet, hist,
                   budget, dh, sess, kx, pk, aes, keyring, sessions, keychain, kcItem>>

\* time passes while a caller waits in the select; a signal in the channel or
\* an expired timer is taken by a waiting select before more time passes
Tick ==
    /\ \E c \in Callers : pc[c] = "waiting"
    /\ signalCh = << >>
    /\ \A c \in Callers : pc[c] = "waiting" =>
          /\ timerAge[c] < PromptTimeout
          /\ elapsed[c] + TickStep <= MaxElapsed
    /\ timerAge' = [c \in Callers |->
                      IF pc[c] = "waiting" THEN timerAge[c] + TickStep ELSE timerAge[c]]
    /\ elapsed' = [c \in Callers |->
                     IF pc[c] = "waiting" THEN elapsed[c] + TickStep ELSE elapsed[c]]
    /\ UNCHANGED <<pc, op, prompt, pstate, pwRet, opRet, hist, signalCh, daemon,
                   budget, dh, sess, kx, pk, aes, keyring, sessions, keychain, kcItem>>

Next ==
    \/ \E c \in Callers, o \in Ops : OpCallFails(c, o)
    \/ \E c \in Callers, o \in Ops, fresh \in BOOLEAN, callOk \in BOOLEAN :
         OpCall(c, o, fresh, callOk)
    \/ \E c \in Callers : RecvSkip(c)
    \/ \E c \in Callers : RecvCompleted(c)
    \/ \E c \in Callers : Timeout(c)
    \/ \E p \in daemon.shown, body \in CompletedBodies : EmitCompleted(p, body)
    \/ EmitOther
    \/ Tick

Spec == Init /\ [][Next]_vars

SpecConcurrent == InitConcurrent /\ [][Next]_vars

-----------------------------------------------------------------------------
(* Evaluations of the Diffie-Hellman functions on the arguments Init draws  *)

\* the public values tried for a group: those of the group, the values at the
\* edges of the range and the values outside it
PublicValues(group) == (0 - 1) .. (group.p + 1)

InitDH ==
    /\ InitSvc([c \in {"c1"} |-> MaxOps])
    /\ KeychainIdle
    /\ sess = NoSess
    /\ CryptoIdle
    /\ \E p \in TestPrimes :
         \E theirPublic \in PublicValues(dhGroup(p)), myPrivate \in 0 .. MaxPrivate :
            dh = DHCall("args", dhGroup(p), theirPublic, myPrivate, NoDHRet)

\* group.diffieHellman(theirPublic, myPrivate)
CallDiffieHellman ==
    /\ dh.phase = "args"
    /\ LET r == diffieHellman(dh.group, dh.theirPublic, dh.myPrivate)
       IN dh' = [dh EXCEPT !.phase = "diffieHellman",
                           !.ret = [NoDHRet EXCEPT !.secret = r.secret, !.err = r.err]]
    /\ UNCHANGED <<svcVars, sess, kx, pk, aes, keyring, sessions, keychain, kcItem>>

\* keygenDHIETF1024SHA256AES128CBCPKCS7(group, theirPublic, myPrivate)
CallKeygen ==
    /\ dh.phase = "args"
    /\ LET r == keygenDHIETF1024SHA256AES128CBCPKCS7(dh.group, dh.theirPublic, dh.myPrivate)
       IN dh' = [dh EXCEPT !.phase = "keygen",
                           !.ret = [NoDHRet EXCEPT !.key = r.key, !.err = r.err,
                                                   !.hkdfRuns = r.hkdfRuns]]
    /\ UNCHANGED <<svcVars, sess, kx, pk, aes, keyring, sessions, keychain, kcItem>>

NextDH == CallDiffieHellman \/ CallKeygen

SpecDH == InitDH /\ [][NextDH]_vars

-----------------------------------------------------------------------------
(* Opening a session *)

InitSession ==
    /\ InitSvc([c \in {"c1"} |-> MaxOps])
    /\ KeychainIdle
    /\ dh = NoDH
    /\ CryptoIdle
    /\ \E p \in TestPrimes :
         sess = SessionOpening("ready", AuthenticationPlain, dhGroup(p), NoKeypair, << >>,
                               NoReply, NoSessionResult)

\* the replies the peer and the bus can give to an OpenSession of the mode
SessionReplies(mode, group) ==
    {SessionReply("failed", DBusError, 0, NoSession),
     SessionReply("rejected", NotSupported, 0, NoSession)}
    \cup {SessionReply("ok", Nil, out, SessionPath) :
            out \in IF mode = AuthenticationPlain THEN {0} ELSE 0 .. (group.p + 1)}

\* OpenSession(AuthenticationPlain)
OpenSessionPlain(reply) ==
    /\ sess.phase = "ready"
    /\ reply \in SessionReplies(AuthenticationPlain, sess.group)
    /\ sess' = [sess EXCEPT
                  !.phase = "done", !.mode = AuthenticationPlain, !.reply = reply,
                  !.input = SessionInput(AuthenticationPlain, NoKeypair),
                  !.ret = OpenSession(AuthenticationPlain, sess.group, NoKeypair, reply)]
    /\ UNCHANGED <<svcVars, dh, kx, pk, aes, keyring, sessions, keychain, kcItem>>

\* OpenSession(AuthenticationDHAES) with the private exponent r
OpenSessionDH(r, reply) ==
    /\ sess.phase = "ready"
    /\ reply \in SessionReplies(AuthenticationDHAES, sess.group)
    /\ LET kp == NewKeypair(sess.group, r) IN
         sess' = [sess EXCEPT
                    !.phase = "done", !.mode = AuthenticationDHAES, !.reply = reply,
                    !.keypair = kp, !.input = SessionInput(AuthenticationDHAES, kp),
                    !.ret = OpenSession(AuthenticationDHAES, sess.group, kp, reply)]
    /\ UNCHANGED <<svcVars, dh, kx, pk, aes, keyring, sessions, keychain, kcItem>>

NextSession ==
    \/ \E reply \in SessionReplies(AuthenticationPlain, sess.group) : OpenSessionPlain(reply)
    \/ \E r \in 1 .. (sess.group.p - 2) :
         \E reply \in SessionReplies(AuthenticationDHAES, sess.group) : OpenSessionDH(r, reply)

SpecSession == InitSession /\ [][NextSession]_vars

-----------------------------------------------------------------------------
(* Key agreement between two keypairs, as TestKeygen makes it               *)

\* safe primes p = 2q + 1 in which 2 generates the subgroup of prime order q,
\* as it does in the Second Oakley Group
OakleyLikePrimes == {7, 23}

\* the primes of the groups keypairs are made in
KxPrimes == TestPrimes \cup OakleyLikePrimes

InitKx ==
    /\ InitSvc([c \in {"c1"} |-> MaxOps])
    /\ KeychainIdle
    /\ dh = NoDH
    /\ sess = NoSess
    /\ pk = NoPk
    /\ aes = NoAes
    /\ keyring = NoKeyring
    /\ \E p \in KxPrimes :
         kx = KeyAgreement("group", dhGroup(p), NoKeypair, NoKeypair, NoDHRet, NoDHRet)

\* group.NewKeypair() twice, with the private exponents a and b
KxNewKeypairs(a, b) ==
    /\ kx.phase = "group"
    /\ kx' = [kx EXCEPT !.phase = "keys",
                        !.mine = NewKeypair(kx.group, a),
                        !.theirs = NewKeypair(kx.group, b)]
    /\ UNCHANGED <<svcVars, dh, sess, pk, aes, keyring, sessions, keychain, kcItem>>

\* each side calls diffieHellman with the public value of the other
KxDiffieHellman ==
    /\ kx.phase = "keys"
    /\ LET m == diffieHellman(kx.group, kx.theirs.public, kx.mine.private)
           t == diffieHellman(kx.group, kx.mine.public, kx.theirs.private)
       IN kx' = [kx EXCEPT !.phase = "secrets",
                           !.myRet = [NoDHRet EXCEPT !.secret = m.secret, !.err = m.err],
                           !.theirRet = [NoDHRet EXCEPT !.secret = t.secret, !.err = t.err]]
    /\ UNCHANGED <<svcVars, dh, sess, pk, aes, keyring, sessions, keychain, kcItem>>

\* each side derives its key from the public value of the other
KxKeygen ==
    /\ kx.phase = "keys"
    /\ LET m == keygenDHIETF1024SHA256AES128CBCPKCS7(kx.group, kx.theirs.public,
                                                     kx.mine.private)
           t == keygenDHIETF1024SHA256AES128CBCPKCS7(kx.group, kx.mine.public,
                                                     kx.theirs.private)
       IN kx' = [kx EXCEPT !.phase = "derived",
                           !.myRet = [NoDHRet EXCEPT !.key = m.key, !.err = m.err,
                                                     !.hkdfRuns = m.hkdfRuns],
                           !.theirRet = [NoDHRet EXCEPT !.key = t.key, !.err = t.err,
                                                        !.hkdfRuns = t.hkdfRuns]]
    /\ UNCHANGED <<svcVars, dh, sess, pk, aes, keyring, sessions, keychain, kcItem>>

NextKx ==
    \/ \E a, b \in 1 .. (kx.group.p - 2) : KxNewKeypairs(a, b)
    \/ KxDiffieHellman
    \/ KxKeygen

SpecKx == InitKx /\ [][NextKx]_vars

-----------------------------------------------------------------------------
(* Evaluations of padPKCS7 and unpadPKCS7 on the buffers Init draws         *)

\* longest buffer drawn from the byte values
MaxPadLen == 5

\* byte values the buffers are drawn from: zero, the padding bytes of the
\* small block sizes, and a byte that is a whole block of padding
PadByteValues == {0, 1, 2, 4}

\* the block sizes tried: a small one, that of TestPKCS7 and that of AES
BlockSizes == {2, TestBlockSize, BlockSize}

\* the sequences over S of length at most n
RECURSIVE SeqsUpTo(_, _)
SeqsUpTo(S, n) ==
    IF n = 0 THEN {<< >>}
    ELSE LET shorter == SeqsUpTo(S, n - 1)
         IN shorter \cup {Append(q, x) : q \in {r \in shorter : Len(r) = n - 1}, x \in S}

\* the buffers tried: the short ones over the byte values, and the inputs,
\* outputs and bad buffers of TestPKCS7
PadBuffers ==
    SeqsUpTo(PadByteValues, MaxPadLen)
      \cup {t.in : t \in pkcs7tests} \cup {t.out : t \in pkcs7tests} \cup pkcs7bad

InitPKCS7 ==
    /\ InitSvc([c \in {"c1"} |-> MaxOps])
    /\ KeychainIdle
    /\ dh = NoDH
    /\ sess = NoSess
    /\ kx = NoKx
    /\ aes = NoAes
    /\ keyring = NoKeyring
    /\ \E buf \in PadBuffers, blockSize \in BlockSizes :
         pk = PadCall("args", buf, blockSize, << >>, UnpadResult(<< >>, Nil))

\* padPKCS7(buf, blockSize)
CallPad ==
    /\ pk.phase = "args"
    /\ pk' = [pk EXCEPT !.phase = "padded", !.padded = padPKCS7(pk.buf, pk.blockSize)]
    /\ UNCHANGED <<svcVars, dh, sess, kx, aes, keyring, sessions, keychain, kcItem>>

\* unpadPKCS7 of what padPKCS7 returned
CallUnpadPadded ==
    /\ pk.phase = "padded"
    /\ pk' = [pk EXCEPT !.phase = "roundtrip", !.ret = unpadPKCS7(pk.padded, pk.blockSize)]
    /\ UNCHANGED <<svcVars, dh, sess, kx, aes, keyring, sessions, keychain, kcItem>>

\* unpadPKCS7(buf, blockSize)
CallUnpad ==
    /\ pk.phase = "args"
    /\ pk' = [pk EXCEPT !.phase = "unpadded", !.ret = unpadPKCS7(pk.buf, pk.blockSize)]
    /\ UNCHANGED <<svcVars, dh, sess, kx, aes, keyring, sessions, keychain, kcItem>>

NextPKCS7 == CallPad \/ CallUnpadPadded \/ CallUnpad

SpecPKCS7 == InitPKCS7 /\ [][NextPKCS7]_vars

-----------------------------------------------------------------------------
(* Encryptions and decryptions with one key, as TestEncryption and          *)
(* TestEncryptionRng make them                                              *)

\* encryptions made with one key
MaxEncrypts == 2

\* the keys tried: that of the tests and another key of 16 bytes
CipherKeys == {YellowSubmarine, Repeat(7, AES128KeySize)}

\* the plaintexts tried: the empty one, that of the tests, one that is a
\* whole block and one that is a block and a byte
CipherPlaintexts == {<< >>, HelloWorld, Repeat(16, BlockSize), Repeat(1, BlockSize + 1)}

\* no IV: the cipher of the source returns none
NoIV == << >>

\* an encryption in the log: what was given and what was returned
Encryption(plaintext, rndOk, iv, ciphertext, err) ==
    [plaintext |-> plaintext, rndOk |-> rndOk, iv |-> iv, ciphertext |-> ciphertext,
     err |-> err]

InitCipher ==
    /\ InitSvc([c \in {"c1"} |-> MaxOps])
    /\ KeychainIdle
    /\ dh = NoDH
    /\ sess = NoSess
    /\ kx = NoKx
    /\ pk = NoPk
    /\ keyring = NoKeyring
    /\ \E key \in CipherKeys : aes = [NoAes EXCEPT !.phase = "ready", !.key = key]

\* the cipher's encrypt is called on the plaintext with the key; rndOk is
\* whether crypto/rand can be read at that time.  The encrypt of the source
\* is UnauthenticatedAESEncrypt, which reads no randomness and returns no IV.
Encrypt(plaintext, rndOk) ==
    /\ aes.phase = "ready"
    /\ Len(aes.log) < MaxEncrypts
    /\ LET r == UnauthenticatedAESEncrypt(plaintext, aes.key)
       IN aes' = [aes EXCEPT !.log = Append(@, Encryption(plaintext, rndOk, NoIV,
                                                          r.ciphertext, r.err))]
    /\ UNCHANGED <<svcVars, dh, sess, kx, pk, keyring, sessions, keychain, kcItem>>

\* what the i-th encryption returned is decrypted with the key
Decrypt(i) ==
    /\ aes.phase = "ready"
    /\ i \in 1 .. Len(aes.log)
    /\ aes.log[i].err = Nil
    /\ aes' = [aes EXCEPT !.dec = [of |-> i,
                                   ret |-> unauthenticatedAESCBCDecrypt(
                                              aes.log[i].iv, aes.log[i].ciphertext, aes.key)]]
    /\ UNCHANGED <<svcVars, dh, sess, kx, pk, keyring, sessions, keychain, kcItem>>

NextCipher ==
    \/ \E plaintext \in CipherPlaintexts, rndOk \in BOOLEAN : Encrypt(plaintext, rndOk)
    \/ \E i \in 1 .. MaxEncrypts : Decrypt(i)

SpecCipher == InitCipher /\ [][NextCipher]_vars

-----------------------------------------------------------------------------
(* A run against the daemon's collection, as testKeyring makes it: open a   *)
(* session, make a secret, create an item with it, search for the item and  *)
(* get its secret.  The daemon keeps the plaintext of every item and seals  *)
(* it for the session it is asked through.                                  *)

\* []byte("secret")
SecretBytes == <<115, 101, 99, 114, 101, 116>>

\* []byte("naww")
Naww == <<110, 97, 119, 119>>

\* the plaintexts stored
Plaintexts == {SecretBytes, Naww}

\* map[string]string{"foo": "bar"}
TestAttributes == {<<"foo", "bar">>}

\* attributes that do not match the query of the run
OtherAttributes == {<<"foo", "baz">>}

\* Collection.SearchItems: an item matches when it has every attribute asked for
Matches(query, attrs) == query \subseteq attrs

Item(path, attrs, value) == [path |-> path, attrs |-> attrs, value |-> value]

\* what the collection holds before the run: nothing, an item that does not
\* match the query, or one that does
InitialCollections ==
    { {},
      {Item("/org/freedesktop/secrets/collection/login/7", OtherAttributes, Naww)},
      {Item("/org/freedesktop/secrets/collection/login/8", TestAttributes, Naww)} }

\* how a wait in PromptAndWait ends: by the timer, or by the completion of
\* its prompt with a body
WaitEnds(kind, body) == [kind |-> kind, body |-> body]

WaitOutcomes ==
    {WaitEnds("timeout", MalformedBody)}
      \cup {WaitEnds("signal", b) : b \in CompletedBodies \ {MalformedBody}}

InitKeyring ==
    /\ InitSvc([c \in {"c1"} |-> MaxOps])
    /\ KeychainIdle
    /\ dh = NoDH
    /\ sess = NoSess
    /\ kx = NoKx
    /\ pk = NoPk
    /\ aes = NoAes
    /\ \E coll \in InitialCollections :
         keyring = [NoKeyring EXCEPT !.phase = "closed", !.items = coll]

\* srv.OpenSession(AuthenticationPlain); kind is "failed" when the call fails
KOpenSessionPlain(kind) ==
    /\ keyring.phase = "closed"
    /\ LET reply == IF kind = "failed"
                      THEN SessionReply("failed", DBusError, 0, NoSession)
                      ELSE SessionReply("ok", Nil, 0, SessionPath)
           ret == OpenSession(AuthenticationPlain, dhGroup(2), NoKeypair, reply)
       IN keyring' = [keyring EXCEPT
                        !.phase = IF ret.err = Nil THEN "open" ELSE "openFailed",
                        !.mode = AuthenticationPlain,
                        !.input = SessionInput(AuthenticationPlain, NoKeypair),
                        !.session = ret.session, !.key = ret.key, !.peerKey = NoKey]
    /\ UNCHANGED <<svcVars, dh, sess, kx, pk, aes, sessions, keychain, kcItem>>

\* srv.OpenSession(AuthenticationDHAES) in the group of p, with the private
\* exponent r, against a peer with the private exponent b: the peer refuses a
\* public value out of range, and otherwise answers with its own public value
\* and derives its key for the session
KOpenSessionDH(p, r, b, kind) ==
    /\ keyring.phase = "closed"
    /\ LET group == dhGroup(p)
           kp == NewKeypair(group, r)
           pkey == PeerKey(group, kp.public, b)
           reply == IF kind = "failed"
                      THEN SessionReply("failed", DBusError, 0, NoSession)
                    ELSE IF pkey = NoKey
                      THEN SessionReply("rejected", NotSupported, 0, NoSession)
                    ELSE SessionReply("ok", Nil, Exp(group.g, b, group.p), SessionPath)
           ret == OpenSession(AuthenticationDHAES, group, kp, reply)
       IN keyring' = [keyring EXCEPT
                        !.phase = IF ret.err = Nil THEN "open" ELSE "openFailed",
                        !.mode = AuthenticationDHAES,
                        !.input = SessionInput(AuthenticationDHAES, kp),
                        !.session = ret.session, !.key = ret.key,
                        !.peerKey = IF ret.err = Nil THEN pkey ELSE NoKey]
    /\ UNCHANGED <<svcVars, dh, sess, kx, pk, aes, sessions, keychain, kcItem>>

\* session.NewSecret(s); rndOk is whether crypto/rand can be read
KNewSecret(s, rndOk) ==
    /\ keyring.phase = "open"
    /\ LET rnd == IF rndOk THEN RandRead(TRUE, RandBytes(keyring.reads + 1)) ELSE RandFailed
           r == NewSecret(keyring.session, keyring.key, s, rnd)
       IN keyring' = [keyring EXCEPT
                        !.phase = IF r.err = Nil THEN "sealed" ELSE "sealFailed",
                        !.plaintext = s, !.sealed = r,
                        !.reads = IF keyring.key # NoKey /\ r.err = Nil THEN @ + 1 ELSE @]
    /\ UNCHANGED <<svcVars, dh, sess, kx, pk, aes, sessions, keychain, kcItem>>

\* srv.CreateItem(collection, properties with TestAttributes, secret, replace)
\* and the PromptAndWait inside it.  kind is "failed" when the call fails;
\* the daemon refuses a secret it cannot open with its key of the session;
\* it answers with a prompt if fresh and with the null prompt otherwise;
\* callOk is whether the Prompt.Prompt call succeeds, and ends is how the
\* wait ends.  The daemon stores the item, in place of the items with the
\* same attributes, when no prompt is needed or when the prompt was shown and
\* completed without being dismissed.
KCreateItem(kind, fresh, callOk, ends) ==
    /\ keyring.phase = "sealed"
    /\ LET opened == OpenSecret(keyring.peerKey, keyring.sealed.secret)
           accepted == kind = "ok" /\ opened.err = Nil
           p == IF fresh THEN PromptPaths[1] ELSE NullPrompt
           e == PromptAndWaitEntry(p, callOk)
           pw == IF ~e.waits THEN e.ret
                 ELSE IF ends.kind = "timeout" THEN PromptTimedOut
                 ELSE PromptResult(Signal(PromptCompleted, p, ends.body))
           stored == /\ accepted
                     /\ \/ p = NullPrompt
                        \/ e.waits /\ ends.kind = "signal" /\ ~ends.body.dismissed
           matching == {it \in keyring.items : Matches(TestAttributes, it.attrs)}
       IN keyring' = [keyring EXCEPT
                        !.phase = "created",
                        !.before = Cardinality(matching),
                        !.pstate = IF accepted THEN pw.state ELSE "None",
                        !.created = IF accepted
                                      THEN OpResult("CreateItem", ReplyItem("CreateItem"), pw)
                                      ELSE OpCallFailed("CreateItem"),
                        !.items = IF stored
                                    THEN (keyring.items \ matching)
                                           \cup {Item(ItemPath, TestAttributes, opened.plaintext)}
                                    ELSE keyring.items]
    /\ UNCHANGED <<svcVars, dh, sess, kx, pk, aes, sessions, keychain, kcItem>>

\* srv.SearchCollection(collection, TestAttributes)
KSearchCollection(kind) ==
    /\ keyring.phase = "created"
    /\ LET matching == {it \in keyring.items : Matches(TestAttributes, it.attrs)}
           reply == IF kind = "ok" THEN CallReply("ok", {it.path : it \in matching})
                                   ELSE CallReply(kind, {})
       IN keyring' = [keyring EXCEPT !.phase = "searched", !.found = SearchCollection(reply)]
    /\ UNCHANGED <<svcVars, dh, sess, kx, pk, aes, sessions, keychain, kcItem>>

\* srv.GetSecret(items[0], session): the daemon seals the plaintext of the
\* item for the session, and the client opens what it received
KGetSecret(kind) ==
    /\ keyring.phase = "searched"
    /\ keyring.found.err = Nil
    /\ keyring.found.items # {}
    /\ LET path == CHOOSE q \in keyring.found.items : TRUE
           item == CHOOSE it \in keyring.items : it.path = path
           made == NewSecret(keyring.session, keyring.peerKey, item.value,
                             RandRead(TRUE, RandBytes(keyring.reads + 101)))
           reply == IF kind = "ok" /\ made.err = Nil
                      THEN CallReply("ok", <<made.secret.Session, made.secret.Parameters,
                                             made.secret.Value, made.secret.ContentType>>)
                    ELSE IF kind = "malformed" THEN CallReply("malformed", << >>)
                    ELSE CallReply("failed", << >>)
           r == GetSecret(reply)
       IN keyring' = [keyring EXCEPT
                        !.phase = "fetched", !.fetched = r,
                        !.got = IF r.err # Nil THEN DecryptResult(<< >>, r.err)
                                               ELSE OpenSecret(keyring.key, r.secret)]
    /\ UNCHANGED <<svcVars, dh, sess, kx, pk, aes, sessions, keychain, kcItem>>

NextKeyring ==
    \/ \E kind \in {"ok", "failed"} : KOpenSessionPlain(kind)
    \/ \E p \in TestPrimes, kind \in {"ok", "failed"} :
         \E r, b \in 1 .. (p - 2) : KOpenSessionDH(p, r, b, kind)
    \/ \E s \in Plaintexts, rndOk \in BOOLEAN : KNewSecret(s, rndOk)
    \/ \E kind \in {"ok", "failed"}, fresh \in BOOLEAN, callOk \in BOOLEAN,
          ends \in WaitOutcomes : KCreateItem(kind, fresh, callOk, ends)
    \/ \E kind \in {"ok", "failed"} : KSearchCollection(kind)
    \/ \E kind \in {"ok", "failed", "malformed"} : KGetSecret(kind)

SpecKeyring == InitKeyring /\ [][NextKeyring]_vars

-----------------------------------------------------------------------------
(* Several sessions opened on one service, and secrets made on them and     *)
(* fetched through them                                                     *)

\* sessions opened on the service
MaxSessions == 2

\* secrets made or fetched
MaxSecrets == 1

\* the paths the daemon gives to the sessions it opens, in order
SessionPaths == << SessionPath, "/org/freedesktop/secrets/session/s2",
                   "/org/freedesktop/secrets/session/s3",
                   "/org/freedesktop/secrets/session/s4" >>

\* the group the sessions are negotiated in
SessionPrimes == {11}

\* the private exponents the peer draws
PeerPrivates == {2, 3, 5}

\* an opened session: the Session, what OpenSession returned when it bound
\* the key, the keypair made for it, the peer's public value and the key the
\* peer derived
Opened(session, ret, mode, keypair, peerPublic, peerKey) ==
    [session |-> session, ret |-> ret, mode |-> mode, keypair |-> keypair,
     peerPublic |-> peerPublic, peerKey |-> peerKey]

\* the key of the session opened last, whichever session is asked for
KeyFor_LastOpened(opened, i) == opened[Len(opened)].session.key

\* the key a call on the i-th session seals and opens with: the key of that
\* Session
KeyFor(opened, i) == opened[i].session.key

\* the private exponents of the keypairs made so far
UsedPrivates == {sessions.opened[i].keypair.private : i \in 1 .. Len(sessions.opened)}

\* the private exponents the peer has used so far
UsedPeerPrivates ==
    {b \in PeerPrivates :
        \E i \in 1 .. Len(sessions.opened) :
            /\ sessions.opened[i].mode = AuthenticationDHAES
            /\ sessions.opened[i].peerPublic = Exp(sessions.group.g, b, sessions.group.p)}

InitSessions ==
    /\ InitSvc([c \in {"c1"} |-> MaxOps])
    /\ dh = NoDH
    /\ sess = NoSess
    /\ CryptoIdle
    /\ keychain = NoKeychain
    /\ kcItem = NoItemState
    /\ \E p \in SessionPrimes :
         sessions = [NoSessions EXCEPT !.phase = "service", !.group = dhGroup(p)]

\* what a call to OpenSession leaves: the session is kept when it was opened
AfterOpenSession(mode, kp, reply, peerKey, ret) ==
    [sessions EXCEPT
       !.opened = IF ret.err # Nil THEN @
                  ELSE Append(@, Opened(Session(ret.session, ret.key), ret, mode, kp,
                                        reply.output, peerKey)),
       !.last = [NoSessionCall EXCEPT !.op = "OpenSession", !.key = ret.key,
                                      !.err = ret.err]]

\* srv.OpenSession(AuthenticationPlain)
SOpenSessionPlain(kind) ==
    /\ sessions.phase = "service"
    /\ Len(sessions.opened) < MaxSessions
    /\ LET path == SessionPaths[Len(sessions.opened) + 1]
           reply == IF kind = "failed"
                      THEN SessionReply("failed", DBusError, 0, NoSession)
                      ELSE SessionReply("ok", Nil, 0, path)
           ret == OpenSession(AuthenticationPlain, sessions.group, NoKeypair, reply)
       IN sessions' = AfterOpenSession(AuthenticationPlain, NoKeypair, reply, NoKey, ret)
    /\ UNCHANGED <<svcVars, dh, sess, kx, pk, aes, keyring, keychain, kcItem>>

\* srv.OpenSession(AuthenticationDHAES): a keypair is made with the private
\* exponent r that crypto/rand gives, which it has not given before, and the
\* peer, with a private exponent b of its own, answers as in KOpenSessionDH
SOpenSessionDH(r, b, kind) ==
    /\ sessions.phase = "service"
    /\ Len(sessions.opened) < MaxSessions
    /\ r \in (1 .. (sessions.group.p - 2)) \ UsedPrivates
    /\ b \in PeerPrivates \ UsedPeerPrivates
    /\ LET group == sessions.group
           path == SessionPaths[Len(sessions.opened) + 1]
           kp == NewKeypair(group, r)
           pkey == PeerKey(group, kp.public, b)
           reply == IF kind = "failed"
                      THEN SessionReply("failed", DBusError, 0, NoSession)
                    ELSE IF pkey = NoKey
                      THEN SessionReply("rejected", NotSupported, 0, NoSession)
                    ELSE SessionReply("ok", Nil, Exp(group.g, b, group.p), path)
           ret == OpenSession(AuthenticationDHAES, group, kp, reply)
       IN sessions' = AfterOpenSession(AuthenticationDHAES, kp, reply,
                                       IF ret.err = Nil THEN pkey ELSE NoKey, ret)
    /\ UNCHANGED <<svcVars, dh, sess, kx, pk, aes, keyring, keychain, kcItem>>

\* session.NewSecret(s) on the i-th session; the peer opens what was made
\* with its key of the session the secret names
SNewSecret(i, s, rndOk) ==
    /\ sessions.phase = "service"
    /\ sessions.secrets < MaxSecrets
    /\ i \in 1 .. Len(sessions.opened)
    /\ LET o == sessions.opened[i]
           key == KeyFor(sessions.opened, i)
           rnd == IF rndOk THEN RandRead(TRUE, RandBytes(sessions.secrets + 1))
                           ELSE RandFailed
           made == NewSecret(o.session.path, key, s, rnd)
       IN sessions' = [sessions EXCEPT
                         !.secrets = @ + 1,
                         !.last = [op |-> "NewSecret", session |-> i, key |-> key,
                                   plaintext |-> s, made |-> made,
                                   opened |-> IF made.err # Nil
                                                THEN DecryptResult(<< >>, made.err)
                                                ELSE OpenSecret(o.peerKey, made.secret),
                                   err |-> made.err]]
    /\ UNCHANGED <<svcVars, dh, sess, kx, pk, aes, keyring, keychain, kcItem>>

\* srv.GetSecret(item, session) with the i-th session, for an item whose
\* plaintext is s: the peer seals the plaintext for that session, and the
\* client opens what it received with the key of the session
SGetSecret(i, s, kind) ==
    /\ sessions.phase = "service"
    /\ sessions.secrets < MaxSecrets
    /\ i \in 1 .. Len(sessions.opened)
    /\ LET o == sessions.opened[i]
           key == KeyFor(sessions.opened, i)
           made == NewSecret(o.session.path, o.peerKey, s,
                             RandRead(TRUE, RandBytes(sessions.secrets + 101)))
           reply == IF kind = "ok" /\ made.err = Nil
                      THEN CallReply("ok", <<made.secret.Session, made.secret.Parameters,
                                             made.secret.Value, made.secret.ContentType>>)
                    ELSE IF kind = "malformed" THEN CallReply("malformed", << >>)
                    ELSE CallReply("failed", << >>)
           r == GetSecret(reply)
           got == IF r.err # Nil THEN DecryptResult(<< >>, r.err)
                                 ELSE OpenSecret(key, r.secret)
       IN sessions' = [sessions EXCEPT
                         !.secrets = @ + 1,
                         !.last = [op |-> "GetSecret", session |-> i, key |-> key,
                                   plaintext |-> s, made |-> r, opened |-> got,
                                   err |-> got.err]]
    /\ UNCHANGED <<svcVars, dh, sess, kx, pk, aes, keyring, keychain, kcItem>>

NextSessions ==
    \/ \E kind \in {"ok", "failed"} : SOpenSessionPlain(kind)
    \/ \E r \in 1 .. (sessions.group.p - 2), b \in PeerPrivates, kind \in {"ok", "failed"} :
         SOpenSessionDH(r, b, kind)
    \/ \E i \in 1 .. Len(sessions.opened), s \in {SecretBytes}, rndOk \in BOOLEAN :
         SNewSecret(i, s, rndOk)
    \/ \E i \in 1 .. Len(sessions.opened), s \in {SecretBytes},
          kind \in {"ok", "failed", "malformed"} : SGetSecret(i, s, kind)

SpecSessions == InitSessions /\ [][NextSessions]_vars

-----------------------------------------------------------------------------
(* The operations that never prompt, OpenSession and GetSecret, beside the  *)
(* four that may                                                            *)

\* what a call that never prompts leaves of the caller: one request made, no
\* prompt, and the operation returned
ReturnsAtOnce(c, o, failed, ret) ==
    /\ budget' = [budget EXCEPT ![c] = @ - 1]
    /\ op' = [op EXCEPT ![c] = o]
    /\ prompt' = [prompt EXCEPT ![c] = NullPrompt]
    /\ pstate' = [pstate EXCEPT ![c] = "None"]
    /\ hist' = [hist EXCEPT ![c] = [NoHist EXCEPT !.requests = 1, !.ipcFailed = failed]]
    /\ pwRet' = [pwRet EXCEPT ![c] = NoPwRet]
    /\ opRet' = [opRet EXCEPT ![c] = ret]
    /\ timerAge' = [timerAge EXCEPT ![c] = 0]
    /\ elapsed' = [elapsed EXCEPT ![c] = 0]
    /\ pc' = [pc EXCEPT ![c] = "done"]

\* srv.OpenSession(mode): the call, the storing of its reply, and the return
CallOpenSession(c, kind) ==
    /\ CanStart(c)
    /\ LET reply == IF kind = "ok" THEN SessionReply("ok", Nil, 0, SessionPath)
                    ELSE SessionReply("failed", DBusError, 0, NoSession)
           r == SessionCall(reply)
       IN ReturnsAtOnce(c, "OpenSession", kind # "ok", [item |-> r.session, err |-> r.err])
    /\ UNCHANGED <<signalCh, daemon, dh, sess, kx, pk, aes, keyring, sessions, keychain,
                   kcItem>>

\* srv.GetSecret(item, session): the call, the decoding of its reply, and the
\* return; the secret returned is kept as the last call on a session
CallGetSecret(c, kind, s) ==
    /\ CanStart(c)
    /\ LET reply == IF kind = "ok"
                      THEN CallReply("ok", <<SessionPath, << >>, s, "text/plain">>)
                      ELSE CallReply(kind, << >>)
           r == GetSecret(reply)
       IN /\ ReturnsAtOnce(c, "GetSecret", kind = "failed", [item |-> NoItem, err |-> r.err])
          /\ sessions' = [sessions EXCEPT
                            !.last = [NoSessionCall EXCEPT !.op = "GetSecret",
                                                           !.plaintext = s, !.made = r,
                                                           !.err = r.err]]
    /\ UNCHANGED <<signalCh, daemon, dh, sess, kx, pk, aes, keyring, keychain, kcItem>>

NextOps ==
    \/ Next
    \/ \E c \in Callers, kind \in {"ok", "failed"} : CallOpenSession(c, kind)
    \/ \E c \in Callers, kind \in {"ok", "failed", "malformed"}, s \in {SecretBytes} :
         CallGetSecret(c, kind, s)

SpecOps == Init /\ [][NextOps]_vars

-----------------------------------------------------------------------------
(* The platform keychain (keychain.go): generic-password items added,      *)
(* queried and deleted.  SecItemAdd, SecItemCopyMatching and SecItemDelete  *)
(* are the operating system's; they are modelled as the tests observe them: *)
(* one item per service and account, a query matching on the attributes it  *)
(* carries.                                                                 *)

\* calls made on the keychain
MaxKeychainCalls == 3

errSecSuccess == "errSecSuccess"

KeychainErrorDuplicateItem == "errSecDuplicateItem"

KeychainErrorItemNotFound == "errSecItemNotFound"

\* KeychainError(errCode) as an error value
KeychainError(errCode) == << [type |-> "KeychainError", msg |-> errCode] >>

\* checkKeychainError that takes a duplicate for a success
checkKeychainError_IgnoresDuplicate(errCode) ==
    IF errCode \in {errSecSuccess, KeychainErrorDuplicateItem} THEN Nil
    ELSE KeychainError(errCode)

checkKeychainError(errCode) ==
    IF errCode = errSecSuccess THEN Nil ELSE KeychainError(errCode)

\* a []byte that is nil, and one that is not
NilBytes == [isNil |-> TRUE, bytes |-> << >>]

SomeBytes(b) == [isNil |-> FALSE, bytes |-> b]

MatchLimitOne == "kSecMatchLimitOne"

ReturnData == "kSecReturnData"

\* the attr map of a generic-password item or query; an attribute left out
\* of the map is "" (data: NilBytes)
NewGenericPassword(service, account, label, data, accessGroup) ==
    [class |-> "kSecClassGenericPassword", service |-> service, account |-> account,
     label |-> label, data |-> data, accessGroup |-> accessGroup,
     matchLimit |-> "", return |-> ""]

NewGenericPasswordQuery(service, account, label, accessGroup, matchLimit, returnType) ==
    [NewGenericPassword(service, account, label, NilBytes, accessGroup)
       EXCEPT !.matchLimit = matchLimit, !.return = returnType]

\* whether a stored item matches a query: on every attribute the query carries
MatchesQuery(query, it) ==
    /\ query.class = it.class
    /\ query.service # "" => query.service = it.service
    /\ query.account # "" => query.account = it.account
    /\ query.label # "" => query.label = it.label
    /\ query.accessGroup # "" => query.accessGroup = it.accessGroup

\* what the keychain keeps of an added item
Stored(attr) == [attr EXCEPT !.matchLimit = "", !.return = ""]

\* SecItemAdd: the item is added unless an item of the same class, service,
\* account and access group is there
SecItemAdd(items, attr) ==
    IF \E it \in items : /\ it.class = attr.class
                         /\ it.service = attr.service
                         /\ it.account = attr.account
                         /\ it.accessGroup = attr.accessGroup
      THEN [items |-> items, code |-> KeychainErrorDuplicateItem]
      ELSE [items |-> items \cup {Stored(attr)}, code |-> errSecSuccess]

\* SecItemDelete: every item the query matches is removed
SecItemDelete(items, query) ==
    LET found == {it \in items : MatchesQuery(query, it)}
    IN IF found = {} THEN [items |-> items, code |-> KeychainErrorItemNotFound]
       ELSE [items |-> items \ found, code |-> errSecSuccess]

\* SecItemCopyMatching with kSecMatchLimitOne and kSecReturnData: the data of
\* an item the query matches
SecItemCopyMatching(items, query, pick) ==
    LET found == {it \in items : MatchesQuery(query, it)}
    IN IF found = {} THEN [results |-> << >>, code |-> KeychainErrorItemNotFound]
       ELSE [results |-> << pick.data >>, code |-> errSecSuccess]

\* AddItem: what it leaves in the keychain and the error it returns
AddItem(items, item) ==
    LET r == SecItemAdd(items, item)
    IN [items |-> r.items, err |-> checkKeychainError(r.code)]

\* DeleteItem that takes an absent item for deleted
DeleteItem_NotFoundIsNil(items, item) ==
    LET r == SecItemDelete(items, item)
    IN [items |-> r.items,
        err |-> IF r.code = KeychainErrorItemNotFound THEN Nil
                ELSE checkKeychainError(r.code)]

DeleteItem(items, item) ==
    LET r == SecItemDelete(items, item)
    IN [items |-> r.items, err |-> checkKeychainError(r.code)]

\* QueryItem without the case of no item found
QueryItem_NotFoundIsError(items, item, pick) ==
    LET r == SecItemCopyMatching(items, item, pick)
    IN [results |-> r.results, err |-> checkKeychainError(r.code)]

\* QueryItem: the results and the error; no item found is no result and no
\* error
QueryItem(items, item, pick) ==
    LET r == SecItemCopyMatching(items, item, pick)
    IN IF r.code = KeychainErrorItemNotFound THEN [results |-> << >>, err |-> Nil]
       ELSE IF checkKeychainError(r.code) # Nil
         THEN [results |-> << >>, err |-> checkKeychainError(r.code)]
       ELSE [results |-> r.results, err |-> Nil]

\* GetGenericPassword: the data and the error
GetGenericPassword(items, service, account, label, accessGroup, pick) ==
    LET query == NewGenericPasswordQuery(service, account, label, accessGroup,
                                         MatchLimitOne, ReturnData)
        q == QueryItem(items, query, pick)
    IN IF q.err # Nil THEN [data |-> NilBytes, err |-> q.err]
       ELSE IF Len(q.results) > 1 THEN [data |-> NilBytes, err |-> New("Too many results")]
       ELSE IF Len(q.results) = 1 THEN [data |-> q.results[1], err |-> Nil]
       ELSE [data |-> NilBytes, err |-> Nil]

\* the services, accounts, labels and passwords the calls are made with
Services == {"TestGenericPasswordRef"}

Accounts == {"test", "test2"}

Labels == {"", "TestUpdateItem"}

Passwords == {SecretBytes, Naww}

InitKeychain ==
    /\ InitSvc([c \in {"c1"} |-> MaxOps])
    /\ dh = NoDH
    /\ sess = NoSess
    /\ CryptoIdle
    /\ sessions = NoSessions
    /\ kcItem = NoItemState
    /\ keychain = [NoKeychain EXCEPT !.phase = "ready"]

\* what a call leaves of the keychain
AfterKeychainCall(o, query, items, err, got) ==
    [phase |-> "ready", items |-> items, calls |-> keychain.calls + 1,
     last |-> [op |-> o, query |-> query, before |-> keychain.items, err |-> err,
               got |-> got]]

\* AddItem(NewGenericPassword(service, account, label, data, ""))
KcAddItem(service, account, label, data) ==
    /\ keychain.phase = "ready"
    /\ keychain.calls < MaxKeychainCalls
    /\ LET item == NewGenericPassword(service, account, label, SomeBytes(data), "")
           r == AddItem(keychain.items, item)
       IN keychain' = AfterKeychainCall("AddItem", item, r.items, r.err, NilBytes)
    /\ UNCHANGED <<svcVars, dh, sess, kx, pk, aes, keyring, sessions, kcItem>>

\* DeleteItem of a query for service, account and label
KcDeleteItem(service, account, label) ==
    /\ keychain.phase = "ready"
    /\ keychain.calls < MaxKeychainCalls
    /\ LET query == NewGenericPassword(service, account, label, NilBytes, "")
           r == DeleteItem(keychain.items, query)
       IN keychain' = AfterKeychainCall("DeleteItem", query, r.items, r.err, NilBytes)
    /\ UNCHANGED <<svcVars, dh, sess, kx, pk, aes, keyring, sessions, kcItem>>

\* GetGenericPassword(service, account, label, ""), where the keychain takes
\* any item the query matches
KcGetGenericPassword(service, account, label) ==
    /\ keychain.phase = "ready"
    /\ keychain.calls < MaxKeychainCalls
    /\ LET query == NewGenericPasswordQuery(service, account, label, "", MatchLimitOne,
                                            ReturnData)
           found == {it \in keychain.items : MatchesQuery(query, it)}
       IN \E pick \in (IF found = {} THEN {query} ELSE found) :
            LET r == GetGenericPassword(keychain.items, service, account, label, "", pick)
            IN keychain' = AfterKeychainCall("GetGenericPassword", query, keychain.items,
                                             r.err, r.data)
    /\ UNCHANGED <<svcVars, dh, sess, kx, pk, aes, keyring, sessions, kcItem>>

NextKeychain ==
    \/ \E s \in Services, a \in Accounts, l \in Labels, d \in Passwords :
         KcAddItem(s, a, l, d)
    \/ \E s \in Services, a \in Accounts, l \in Labels : KcDeleteItem(s, a, l)
    \/ \E s \in Services, a \in Accounts, l \in Labels : KcGetGenericPassword(s, a, l)

SpecKeychain == InitKeychain /\ [][NextKeychain]_vars

-----------------------------------------------------------------------------
(* A keychain Item and its protection attributes: SetAccessible             *)
(* (keychain.go) and SetAccessControl (ios.go) on the attr map of one item  *)

\* calls made on the item
MaxItemCalls == 3

AccessibleDefault == 0

AccessibleWhenUnlocked == 1

AccessibleWhenPasscodeSetThisDeviceOnly == 4

AccessibleAccessibleAlwaysThisDeviceOnly == 7

\* Accessible(999) of TestSetAccessControlInvalidAccessible
UnknownAccessible == 999

SecClassKey == "kSecClass"

AccessibleKey == "kSecAttrAccessible"

AccessControlKey == "kSecAttrAccessControl"

\* a value of the attr map: a CFTypeRef, with the flags of an access control
TypeRef(name, flags) == [ref |-> name, flags |-> flags]

\* the nil CFTypeRef a map lookup gives for a key that is not there
NilTypeRef == TypeRef("", "")

\* accessibleTypeRef: the protection levels AccessibleWhenUnlocked ..
\* AccessibleAccessibleAlwaysThisDeviceOnly
accessibleTypeRef ==
    [a \in AccessibleWhenUnlocked .. AccessibleAccessibleAlwaysThisDeviceOnly |->
       TypeRef(<< "kSecAttrAccessibleWhenUnlocked", "kSecAttrAccessibleAfterFirstUnlock",
                  "kSecAttrAccessibleAlways",
                  "kSecAttrAccessibleWhenPasscodeSetThisDeviceOnly",
                  "kSecAttrAccessibleWhenUnlockedThisDeviceOnly",
                  "kSecAttrAccessibleAfterFirstUnlockThisDeviceOnly",
                  "kSecAttrAccessibleAlwaysThisDeviceOnly" >>[a], "")]

\* accessibleTypeRef[accessible], nil when the map has no such key
Lookup(accessible) ==
    IF accessible \in DOMAIN accessibleTypeRef THEN accessibleTypeRef[accessible]
    ELSE NilTypeRef

AccessControlDevicePasscode == "kSecAccessControlDevicePasscode"

AccessControlBiometryCurrentSet == "kSecAccessControlBiometryCurrentSet"

\* fmt.Errorf(format, arg)
Errorf(format, arg) == << [type |-> "fmt.Errorf", msg |-> format, arg |-> arg] >>

\* attr[key] = value
MapSet(attr, key, value) ==
    [k \in DOMAIN attr \cup {key} |-> IF k = key THEN value ELSE attr[k]]

\* delete(attr, key)
MapDelete(attr, key) == [k \in DOMAIN attr \ {key} |-> attr[k]]

\* SetAccessible: the attr map it leaves
SetAccessible(attr, accessible) ==
    IF accessible # AccessibleDefault
      THEN MapSet(attr, AccessibleKey, Lookup(accessible))
      ELSE MapDelete(attr, AccessibleKey)

\* SecAccessControlCreateWithFlags: the access control made, or none with a
\* CFError or without one
SecAccessControlCreateWithFlags(protection, flags, outcome) ==
    IF outcome = "ok" THEN [access |-> TypeRef(protection.ref, flags), cerr |-> 0]
    ELSE IF outcome = "cferr" THEN [access |-> NilTypeRef, cerr |-> 1]
    ELSE [access |-> NilTypeRef, cerr |-> 0]

\* SetAccessControl that sets the access control and leaves the accessible
\* attribute
SetAccessControl_KeepsAccessible(attr, accessible, flags, outcome) ==
    IF accessible \notin DOMAIN accessibleTypeRef
      THEN [attr |-> attr, err |-> Errorf("invalid accessible value: %d", accessible)]
    ELSE LET c == SecAccessControlCreateWithFlags(accessibleTypeRef[accessible], flags,
                                                  outcome)
         IN IF c.access = NilTypeRef
              THEN [attr |-> attr,
                    err |-> Errorf("SecAccessControlCreateWithFlags failed", c.cerr)]
              ELSE [attr |-> MapSet(attr, AccessControlKey, c.access), err |-> Nil]

\* SetAccessControl that removes the accessible attribute before it looks
\* the protection level up
SetAccessControl_DeletesFirst(attr, accessible, flags, outcome) ==
    IF accessible \notin DOMAIN accessibleTypeRef
      THEN [attr |-> MapDelete(attr, AccessibleKey),
            err |-> Errorf("invalid accessible value: %d", accessible)]
    ELSE LET c == SecAccessControlCreateWithFlags(accessibleTypeRef[accessible], flags,
                                                  outcome)
         IN IF c.access = NilTypeRef
              THEN [attr |-> MapDelete(attr, AccessibleKey),
                    err |-> Errorf("SecAccessControlCreateWithFlags failed", c.cerr)]
              ELSE [attr |-> MapSet(MapDelete(attr, AccessibleKey), AccessControlKey,
                                    c.access),
                    err |-> Nil]

\* SetAccessControl: the attr map it leaves and the error it returns
SetAccessControl(attr, accessible, flags, outcome) ==
    IF accessible \notin DOMAIN accessibleTypeRef
      THEN [attr |-> attr, err |-> Errorf("invalid accessible value: %d", accessible)]
    ELSE LET c == SecAccessControlCreateWithFlags(accessibleTypeRef[accessible], flags,
                                                  outcome)
         IN IF c.access = NilTypeRef
              THEN [attr |-> attr,
                    err |-> Errorf("SecAccessControlCreateWithFlags failed", c.cerr)]
              ELSE [attr |-> MapSet(MapDelete(attr, AccessibleKey), AccessControlKey,
                                    c.access),
                    err |-> Nil]

\* the accessible values and flags the calls are made with
Accessibles ==
    {AccessibleDefault, AccessibleWhenUnlocked, AccessibleWhenPasscodeSetThisDeviceOnly,
     UnknownAccessible}

AccessControlFlags == {AccessControlDevicePasscode, AccessControlBiometryCurrentSet}

\* item := NewItem(); item.SetSecClass(SecClassGenericPassword)
InitItem ==
    /\ InitSvc([c \in {"c1"} |-> MaxOps])
    /\ dh = NoDH
    /\ sess = NoSess
    /\ CryptoIdle
    /\ sessions = NoSessions
    /\ keychain = NoKeychain
    /\ kcItem = [NoItemState EXCEPT
                   !.phase = "item",
                   !.attr = MapSet(@, SecClassKey, TypeRef("kSecClassGenericPassword", "")),
                   !.before = MapSet(@, SecClassKey,
                                     TypeRef("kSecClassGenericPassword", ""))]

\* item.SetAccessible(accessible)
ItemSetAccessible(accessible) ==
    /\ kcItem.phase = "item"
    /\ kcItem.calls < MaxItemCalls
    /\ kcItem' = [kcItem EXCEPT
                    !.attr = SetAccessible(@, accessible),
                    !.before = kcItem.attr,
                    !.calls = @ + 1,
                    !.last = [op |-> "SetAccessible", accessible |-> accessible,
                              flags |-> "", outcome |-> "", err |-> Nil]]
    /\ UNCHANGED <<svcVars, dh, sess, kx, pk, aes, keyring, sessions, keychain>>

\* item.SetAccessControl(accessible, flags)
ItemSetAccessControl(accessible, flags, outcome) ==
    /\ kcItem.phase = "item"
    /\ kcItem.calls < MaxItemCalls
    /\ LET r == SetAccessControl(kcItem.attr, accessible, flags, outcome)
       IN kcItem' = [kcItem EXCEPT
                       !.attr = r.attr,
                       !.before = kcItem.attr,
                       !.calls = @ + 1,
                       !.last = [op |-> "SetAccessControl", accessible |-> accessible,
                                 flags |-> flags,
                                 outcome |-> IF accessible \in DOMAIN accessibleTypeRef
                                               THEN outcome ELSE "",
                                 err |-> r.err]]
    /\ UNCHANGED <<svcVars, dh, sess, kx, pk, aes, keyring, sessions, keychain>>

NextItem ==
    \/ \E a \in Accessibles : ItemSetAccessible(a)
    \/ \E a \in Accessibles, f \in AccessControlFlags, outcome \in {"ok", "cferr", "unknown"} :
         ItemSetAccessControl(a, f, outcome)

SpecItem == InitItem /\ [][NextItem]_vars

-----------------------------------------------------------------------------
(* Properties of the prompt wait and of the operations                      *)

\* the callers whose operation has returned
Returned == {c \in Callers : pc[c] = "done"}

\* the callers whose wait was ended by a signal
EndedBySignal == {c \in Returned : hist[c].endedBy # NoSignal}

\* C1: a wait for handle h ends as Completed or Dismissed only upon a
\* Prompt.Completed signal whose source object is h; any other signal is
\* skipped and the wait goes on.
C1_EndedOnlyByOwnCompletion ==
    \A c \in Returned :
        pstate[c] \in {"Completed", "Dismissed"} =>
            /\ hist[c].endedBy.name = PromptCompleted
            /\ hist[c].endedBy.path = prompt[c]

\* C2: a wait that has not been ended by a completion is over 30 time units
\* after it began, however many other signals arrived: no wait is still going
\* on later than that, and one that ended without a completion ended TimedOut
\* with the timeout error.
C2_WaitOverAfterTimeout ==
    \A c \in Callers :
        /\ pc[c] = "waiting" => elapsed[c] <= PromptTimeout
        /\ (c \in Returned /\ pstate[c] = "TimedOut") =>
              /\ elapsed[c] <= PromptTimeout
              /\ pwRet[c].err = New("prompt timed out")

C4_NullPromptReturnsAtOnce ==
    \A c \in Callers :
        (prompt[c] = NullPrompt /\ pstate[c] # "None") =>
            /\ pc[c] = "done"
            /\ pstate[c] = "NoPromptNeeded"
            /\ pwRet[c].err = Nil
            /\ pwRet[c].paths = NoPaths
            /\ hist[c].begins = 0
            /\ hist[c].recvs = 0
            /\ hist[c].timers = 0

\* an operation has returned through PromptAndWait on the null prompt while
\* a signal was in the channel
C4_Witness ==
    \E c \in Returned :
        /\ prompt[c] = NullPrompt
        /\ pstate[c] = "NoPromptNeeded"
        /\ opRet[c].err = Nil
        /\ signalCh # << >>

\* C5: CreateItem, DeleteItem, Unlock and LockItems report success only after
\* the prompt handle was the null prompt or was driven to Completed.
C5_SuccessOnlyAfterPrompt ==
    \A c \in Returned :
        opRet[c].err = Nil => pstate[c] \in {"NoPromptNeeded", "Completed"}

\* C6: a failed Prompt.Prompt call makes PromptAndWait return a non-nil error.
C6_FailedBeginIsAnError ==
    \A c \in Returned :
        pstate[c] = "BeginFailed" => pwRet[c].err # Nil

\* what a caller can tell from a returned error
Classify(err) ==
    IF err = Nil THEN "none"
    ELSE IF \E i \in 1 .. Len(err) : err[i].type = "PromptDismissedError" THEN "dismissed"
    ELSE IF Cause(err).type = "dbus.Error" THEN "transport"
    ELSE IF Cause(err) = New("prompt timed out")[1] THEN "timeout"
    ELSE "other"

\* what happened to the operation of a caller
Happened(c) ==
    IF hist[c].ipcFailed THEN "transport"
    ELSE IF pstate[c] = "Dismissed" THEN "dismissed"
    ELSE IF pstate[c] = "TimedOut" THEN "timeout"
    ELSE "other"

\* C7: a dismissed prompt, a timed-out prompt and a failed call are told apart
\* by the error the operation returns.
C7_ErrorTellsWhatHappened ==
    \A c \in Returned :
        Happened(c) \in {"transport", "dismissed", "timeout"} =>
            Classify(opRet[c].err) = Happened(c)

\* the completion of the prompt p is in the channel
InChannel(p) ==
    \E i \in 1 .. Len(signalCh) :
        signalCh[i].name = PromptCompleted /\ signalCh[i].path = p

\* caller c has taken the completion of the prompt of caller d
Stolen(c, d) ==
    /\ c # d
    /\ prompt[d] # NullPrompt
    /\ pstate[d] # "BeginFailed"
    /\ hist[c].endedBy.name = PromptCompleted
    /\ hist[c].endedBy.path = prompt[d]

\* C8: with two waits going on at once on one service, the completion of one
\* prompt can be taken by the other waiter; the completion is then lost to
\* the waiter it was meant for: it is no longer in the channel, the daemon
\* does not send it again, and that waiter was not ended by it.
C8_StolenCompletionIsLost ==
    \A c, d \in Callers :
        Stolen(c, d) =>
            /\ ~InChannel(prompt[d])
            /\ prompt[d] \notin daemon.shown
            /\ hist[d].endedBy.path # prompt[d]

\* one waiter has been completed by the completion of the prompt of the
\* other, which is still waiting
C8_Witness ==
    \E c, d \in Callers :
        /\ Stolen(c, d)
        /\ pc[c] = "done"
        /\ pstate[c] = "Completed"
        /\ pc[d] = "waiting"

-----------------------------------------------------------------------------
(* Properties of the Diffie-Hellman functions and of OpenSession            *)

\* a public value is outside the range 1 < v < p - 1
OutOfRange(group, v) == v <= 1 \/ v >= group.p - 1

\* C9: diffieHellman fails with the out-of-bounds error exactly when
\* theirPublic <= 1 or theirPublic >= p - 1, and otherwise returns
\* theirPublic^myPrivate mod p.
C9_DiffieHellman ==
    dh.phase = "diffieHellman" =>
        IF OutOfRange(dh.group, dh.theirPublic)
          THEN /\ dh.ret.err = New("ssh: DH parameter out of bounds")
               /\ dh.ret.secret = NoSecret
          ELSE /\ dh.ret.err = Nil
               /\ dh.ret.secret = (dh.theirPublic ^ dh.myPrivate) % dh.group.p

\* diffieHellman has returned the power of the largest public value in range
C9_Witness ==
    /\ dh.phase = "diffieHellman"
    /\ dh.theirPublic = dh.group.p - 2
    /\ dh.myPrivate = 3
    /\ dh.ret.err = Nil
    /\ dh.ret.secret = dh.group.p - 8

-----------------------------------------------------------------------------
(* Properties of key agreement and of key derivation                        *)

\* both sides of a key agreement have returned
KxDone == kx.phase \in {"secrets", "derived"}

\* C11 as stated: for any two keypairs with private exponents in [1, p - 2],
\* key agreement succeeds on both sides, both sides get the same shared
\* secret, and both derive the same key.
C11_KeypairsAgree ==
    KxDone =>
        /\ kx.myRet.err = Nil
        /\ kx.theirRet.err = Nil
        /\ kx.myRet.secret = kx.theirRet.secret
        /\ kx.myRet.key = kx.theirRet.key

\* C11 as amended: a side of the key agreement succeeds exactly when the
\* public value of the other keypair lies strictly between 1 and p - 1; when
\* both sides succeed they get the same shared secret g^(ab) mod p and derive
\* the same key.
C11_KeypairsInRangeAgree ==
    KxDone =>
        /\ (kx.myRet.err = Nil) <=> ~(kx.theirs.public <= 1 \/ kx.theirs.public >= kx.group.p - 1)
        /\ (kx.theirRet.err = Nil) <=> ~(kx.mine.public <= 1 \/ kx.mine.public >= kx.group.p - 1)
        /\ (kx.myRet.err = Nil /\ kx.theirRet.err = Nil) =>
              /\ kx.myRet.secret = kx.theirRet.secret
              /\ kx.myRet.key = kx.theirRet.key
              /\ kx.phase = "secrets" =>
                    kx.myRet.secret = Exp(kx.group.g, kx.mine.private * kx.theirs.private,
                                          kx.group.p)
              /\ kx.phase = "derived" => kx.myRet.key # NoKey

\* two different keypairs of an Oakley-like group have derived the same key
C11_Witness ==
    /\ kx.phase = "derived"
    /\ kx.group.p \in OakleyLikePrimes
    /\ kx.mine.private # kx.theirs.private
    /\ kx.mine.public # kx.theirs.public
    /\ kx.myRet.err = Nil
    /\ kx.theirRet.err = Nil
    /\ kx.myRet.key # NoKey
    /\ kx.myRet.key = kx.theirRet.key

\* C12: the key derived from a shared secret is exactly 16 bytes long.
C12_KeyIs16Bytes ==
    (dh.phase = "keygen" /\ dh.ret.err = Nil) => dh.ret.key.len = AES128KeySize

-----------------------------------------------------------------------------
(* Properties of the cipher and of the padding                              *)

\* C15: for every plaintext and every 16-byte key, encrypt (when it can read
\* randomness) succeeds with a 16-byte IV and a non-empty ciphertext, and
\* decrypt of that IV and ciphertext with the key returns exactly the
\* plaintext.
C15_EncryptDecryptRoundTrip ==
    \A i \in 1 .. Len(aes.log) :
        LET e == aes.log[i] IN
        /\ e.rndOk =>
              /\ e.err = Nil
              /\ Len(e.iv) = BlockSize
              /\ e.ciphertext # << >>
        /\ (e.err = Nil /\ aes.dec.of = i) =>
              /\ aes.dec.ret.err = Nil
              /\ aes.dec.ret.plaintext = e.plaintext

\* C16: over the encryptions made with one key no IV is used twice, two
\* encryptions of the same plaintext give different ciphertexts, and an
\* encryption that cannot read randomness fails with an error and returns no
\* IV and no ciphertext.
C16_FreshIVPerEncryption ==
    /\ \A i, j \in 1 .. Len(aes.log) :
          (i < j /\ aes.log[i].err = Nil /\ aes.log[j].err = Nil) =>
              /\ aes.log[i].iv # aes.log[j].iv
              /\ aes.log[i].plaintext = aes.log[j].plaintext =>
                    aes.log[i].ciphertext # aes.log[j].ciphertext
    /\ \A i \in 1 .. Len(aes.log) :
          ~aes.log[i].rndOk =>
              /\ aes.log[i].err # Nil
              /\ aes.log[i].iv = NoIV
              /\ aes.log[i].ciphertext = << >>

\* padPKCS7 and unpadPKCS7 have been called on what padPKCS7 returned
PadDone == pk.phase \in {"padded", "roundtrip"}

\* C17: padPKCS7(m, b) is m followed by n bytes of value n, where
\* n = b - (len(m) mod b), so that 1 <= n <= b and the length of the result is
\* the smallest multiple of b greater than len(m); a whole block is added
\* when len(m) is a multiple of b; and it gives the outputs of pkcs7tests.
C17_PadAppendsNBytesOfN ==
    PadDone =>
        LET m == pk.buf
            b == pk.blockSize
            out == pk.padded
            n == Len(out) - Len(m)
        IN /\ n = b - (Len(m) % b)
           /\ 1 <= n /\ n <= b
           /\ SubSeq(out, 1, Len(m)) = m
           /\ \A i \in (Len(m) + 1) .. Len(out) : out[i] = n
           /\ Len(out) % b = 0
           /\ Len(out) > Len(m)
           /\ Len(out) - b <= Len(m)
           /\ (Len(m) % b = 0) => Len(out) = Len(m) + b
           /\ \A t \in pkcs7tests : (m = t.in /\ b = TestBlockSize) => out = t.out

\* a buffer of exactly one block has got a whole block of padding
C17_Witness ==
    /\ pk.phase = "padded"
    /\ pk.buf = <<1, 2, 3, 4>>
    /\ pk.blockSize = TestBlockSize
    /\ pk.padded = <<1, 2, 3, 4, 4, 4, 4, 4>>

\* C18: unpadPKCS7(padPKCS7(m, b), b) succeeds and returns exactly m, also
\* when m ends in bytes that look like padding.
C18_UnpadInvertsPad ==
    pk.phase = "roundtrip" =>
        /\ pk.ret.err = Nil
        /\ pk.ret.buf = pk.buf

\* a buffer that ends in a run of padding bytes has come back from
\* unpadPKCS7 of its padding
C18_Witness ==
    /\ pk.phase = "roundtrip"
    /\ pk.buf = <<1, 2, 3, 4, 1, 1, 1>>
    /\ pk.blockSize = TestBlockSize
    /\ pk.padded = <<1, 2, 3, 4, 1, 1, 1, 1>>
    /\ pk.ret = UnpadResult(<<1, 2, 3, 4, 1, 1, 1>>, Nil)

\* the last N bytes of buf, for the N in its last byte, are not all equal to N
BadPaddingRun(buf) ==
    LET N == buf[Len(buf)]
    IN \E i \in (Len(buf) - N + 1) .. Len(buf) : i < 1 \/ buf[i] # N

\* C19: unpadPKCS7(buf, b) fails with a padding error, and returns no
\* plaintext, when buf is empty, when len(buf) is not a multiple of b, or when
\* the last N bytes of buf are not all equal to N for the N in its last byte;
\* it fails on the buffers TestPKCS7 requires it to fail on.
C19_UnpadRejectsBadPadding ==
    pk.phase = "unpadded" =>
        ((\/ Len(pk.buf) = 0
          \/ Len(pk.buf) % pk.blockSize # 0
          \/ BadPaddingRun(pk.buf)
          \/ pk.buf \in pkcs7bad /\ pk.blockSize = TestBlockSize)
         => /\ pk.ret.err # Nil
            /\ pk.ret.err[1].type = "PaddingError"
            /\ pk.ret.buf = << >>)

\* unpadPKCS7 has refused a buffer of whole blocks whose last byte claims more
\* padding than the bytes before it show
C19_Witness ==
    /\ pk.phase = "unpadded"
    /\ pk.buf = <<1, 2, 3, 4, 1, 1, 1, 2>>
    /\ pk.blockSize = TestBlockSize
    /\ pk.ret.err # Nil
    /\ pk.ret.buf = << >>

-----------------------------------------------------------------------------
(* Properties of secrets on a session and of the run against the collection *)

\* the run has made its secret
KSealed == keyring.phase \in {"sealed", "created", "searched", "fetched"}

\* C14: a session opened in plain mode was asked for with an empty payload
\* and has no key; a secret made for it has empty parameters and the
\* plaintext as its value, and so has a secret received on it, whose value is
\* what the client returns as the plaintext.
C14_PlainSessionCarriesPlaintext ==
    (keyring.mode = AuthenticationPlain
       /\ keyring.phase \notin {"off", "closed", "openFailed"}) =>
        /\ keyring.input = << >>
        /\ keyring.key = NoKey
        /\ keyring.phase # "sealFailed"
        /\ KSealed =>
              /\ keyring.sealed.err = Nil
              /\ keyring.sealed.secret.Parameters = << >>
              /\ keyring.sealed.secret.Value = keyring.plaintext
        /\ (keyring.phase = "fetched" /\ keyring.fetched.err = Nil) =>
              /\ keyring.fetched.secret.Parameters = << >>
              /\ keyring.got.err = Nil
              /\ keyring.got.plaintext = keyring.fetched.secret.Value
              /\ \E it \in keyring.items :
                    /\ it.path \in keyring.found.items
                    /\ it.value = keyring.fetched.secret.Value

\* a secret was sent and received as plaintext on a plain session
C14_Witness ==
    /\ keyring.mode = AuthenticationPlain
    /\ keyring.phase = "fetched"
    /\ keyring.sealed.secret.Value = SecretBytes
    /\ keyring.fetched.err = Nil
    /\ keyring.fetched.secret.Parameters = << >>
    /\ keyring.fetched.secret.Value = SecretBytes
    /\ keyring.got.plaintext = SecretBytes

\* C20: after CreateItem has succeeded with the attributes A and a secret
\* made from the plaintext s on the session, when no item matched A before,
\* SearchCollection(A) returns exactly one item and GetSecret of that item on
\* the session returns exactly s (whenever the daemon answers the search and
\* the fetch); this in plain and in encrypted mode.
C20_StoreThenFetch ==
    (/\ keyring.phase \in {"searched", "fetched"}
     /\ keyring.created.err = Nil
     /\ keyring.before = 0
     /\ keyring.found.err = Nil) =>
        /\ Cardinality(keyring.found.items) = 1
        /\ (keyring.phase = "fetched" /\ keyring.fetched.err = Nil) =>
              /\ keyring.got.err = Nil
              /\ keyring.got.plaintext = keyring.plaintext

-----------------------------------------------------------------------------
(* Properties of the sessions of one service                                *)

\* the sessions opened so far
OpenedSessions == 1 .. Len(sessions.opened)

\* the sessions opened in encrypted mode
EncryptedSessions ==
    {i \in OpenedSessions : sessions.opened[i].mode = AuthenticationDHAES}

\* the shared secret of the key exchange of the i-th session
SharedSecretOf(i) ==
    diffieHellman(sessions.group, sessions.opened[i].peerPublic,
                  sessions.opened[i].keypair.private).secret

\* the key of every session is the key OpenSession bound to it
KeysKept ==
    \A i \in OpenedSessions :
        /\ sessions.opened[i].session.key = sessions.opened[i].ret.key
        /\ sessions.opened[i].session.path = sessions.opened[i].ret.session

\* a secret made or fetched on a session names that session and was sealed
\* and opened with the key of that session
OwnKeyUsed ==
    sessions.last.op \in {"NewSecret", "GetSecret"} =>
        LET o == sessions.opened[sessions.last.session] IN
        /\ sessions.last.key = o.session.key
        /\ sessions.last.made.err = Nil =>
              sessions.last.made.secret.Session = o.session.path

\* every encrypted session has a keypair of its own
FreshKeypairs ==
    \A i, j \in EncryptedSessions :
        i # j => sessions.opened[i].keypair.private # sessions.opened[j].keypair.private

-----------------------------------------------------------------------------
(* Properties of the requests made by one call                              *)

\* the operations that never show a prompt
Unprompted == {"OpenSession", "GetSecret"}

\* the call of c has returned an error, was dismissed or timed out
CallFailed(c) ==
    /\ pc[c] = "done"
    /\ \/ opRet[c].err # Nil
       \/ hist[c].ipcFailed
       \/ pstate[c] \in {"Dismissed", "TimedOut", "BeginFailed", "DecodeFailed"}

\* within the call c is in or has returned from, the request was issued at
\* most once and the begin-interaction call at most once, and a call that
\* failed made exactly one request
RequestsOnce ==
    \A c \in Callers :
        /\ hist[c].requests <= 1
        /\ hist[c].begins <= 1
        /\ op[c] \in Unprompted => hist[c].begins = 0 /\ hist[c].recvs = 0
        /\ hist[c].begins = 1 => prompt[c] # NullPrompt
        /\ CallFailed(c) => hist[c].requests = 1

\* the daemon has made no more prompts than calls were made, and has been
\* asked to show no prompt it did not make
OnePromptPerCall ==
    /\ daemon.prompts <= MaxOps - budget["c1"]
    /\ daemon.shown \subseteq {PromptPaths[i] : i \in 1 .. daemon.prompts}

\* once a call has returned, no request is made and no notification is taken
\* until the next call starts
QuietAfterReturn ==
    \A c \in Callers :
        (pc[c] = "done" /\ budget'[c] = budget[c]) =>
            /\ hist'[c] = hist[c]
            /\ opRet'[c] = opRet[c]
            /\ pc'[c] = "done"

\* C22: within one call of OpenSession, CreateItem, DeleteItem, Unlock,
\* LockItems or GetSecret the daemon request is issued at most once and the
\* begin-interaction call at most once, and after a failure, dismissal or
\* timeout the call returns without a further request.
C22_NothingRetried ==
    [](RequestsOnce /\ OnePromptPerCall) /\ [][QuietAfterReturn]_vars

\* a call whose prompt timed out has returned after one request and one
\* begin-interaction call, with nothing left of the calls it may make
C22_Witness ==
    /\ pc["c1"] = "done"
    /\ op["c1"] \in Ops
    /\ pstate["c1"] = "TimedOut"
    /\ hist["c1"].requests = 1
    /\ hist["c1"].begins = 1
    /\ budget["c1"] = 0

-----------------------------------------------------------------------------
(* Properties of the keychain                                               *)

\* the items of a set that have the service and account of a query
SameServiceAccount(items, query) ==
    {it \in items : it.service = query.service /\ it.account = query.account}

\* the last call on the keychain was o
LastKeychainCall(o) == keychain.last.op = o

\* C23: AddItem of an item whose service and account are those of an item
\* already stored fails with the duplicate-item error and leaves the stored
\* items unchanged; the keychain never holds two items with the same service
\* and account.
C23_DuplicateAddFails ==
    /\ (LastKeychainCall("AddItem")
          /\ SameServiceAccount(keychain.last.before, keychain.last.query) # {}) =>
           /\ keychain.last.err = KeychainError(KeychainErrorDuplicateItem)
           /\ keychain.items = keychain.last.before
    /\ \A x, y \in keychain.items :
          (x.service = y.service /\ x.account = y.account) => x = y

\* an item was added a second time, with other data, and the call failed
C23_Witness ==
    /\ LastKeychainCall("AddItem")
    /\ keychain.last.err = KeychainError(KeychainErrorDuplicateItem)
    /\ \E it \in keychain.items :
          /\ it.service = keychain.last.query.service
          /\ it.account = keychain.last.query.account
          /\ it.data # keychain.last.query.data
    /\ Cardinality(keychain.items) = 2

\* a DeleteItem whose query matches no item fails with item-not-found and
\* changes nothing
AbsentDeleteFails ==
    (LastKeychainCall("DeleteItem")
       /\ \A it \in keychain.last.before : ~MatchesQuery(keychain.last.query, it)) =>
        /\ keychain.last.err = KeychainError(KeychainErrorItemNotFound)
        /\ keychain.items = keychain.last.before

\* a DeleteItem that follows a successful DeleteItem of the same query
\* returns item-not-found
SecondDeleteFails ==
    (/\ LastKeychainCall("DeleteItem")
     /\ keychain.last.err = Nil
     /\ keychain'.last.op = "DeleteItem"
     /\ keychain'.calls = keychain.calls + 1
     /\ keychain'.last.query = keychain.last.query) =>
        /\ keychain'.last.err = KeychainError(KeychainErrorItemNotFound)
        /\ keychain'.items = keychain.items

\* C24: DeleteItem of an item that is not present fails with the
\* item-not-found error and changes nothing; a second delete of a deleted
\* item returns not-found.
C24_AbsentDeleteFails == []AbsentDeleteFails /\ [][SecondDeleteFails]_vars

\* an item that is not there was deleted from a keychain that holds another
\* item, after two calls, and the call failed
C24_Witness ==
    /\ LastKeychainCall("DeleteItem")
    /\ keychain.calls = 3
    /\ keychain.last.err = KeychainError(KeychainErrorItemNotFound)
    /\ keychain.last.before # {}
    /\ keychain.items = keychain.last.before

\* a GetGenericPassword for a service and account returns the data of the
\* item stored for them, and nil data and no error when there is none
GetReturnsStored ==
    LastKeychainCall("GetGenericPassword") =>
        LET q == keychain.last.query
            there == SameServiceAccount(keychain.last.before, q)
        IN /\ \A it \in there :
                 (q.label = "" \/ q.label = it.label) =>
                     keychain.last.got = it.data /\ keychain.last.err = Nil
           /\ there = {} => keychain.last.got = NilBytes /\ keychain.last.err = Nil

\* a GetGenericPassword that follows a successful AddItem of the same
\* service, account and label returns the data added, and one that follows a
\* successful DeleteItem of them returns nil data and no error
GetFollows ==
    (/\ keychain.last.op \in {"AddItem", "DeleteItem"}
     /\ keychain.last.err = Nil
     /\ keychain'.last.op = "GetGenericPassword"
     /\ keychain'.calls = keychain.calls + 1
     /\ keychain'.last.query.service = keychain.last.query.service
     /\ keychain'.last.query.account = keychain.last.query.account
     /\ keychain'.last.query.label = keychain.last.query.label) =>
        /\ keychain'.last.err = Nil
        /\ keychain'.last.got = IF keychain.last.op = "AddItem"
                                  THEN keychain.last.query.data ELSE NilBytes

\* C25: after AddItem succeeds, GetGenericPassword for the same service and
\* account returns exactly the data stored; after DeleteItem succeeds it
\* returns nil data and no error.
C25_GetAfterAddAndDelete == []GetReturnsStored /\ [][GetFollows]_vars

\* the password of an item was fetched after the item of the other account
\* was deleted, and the keychain holds it still
C25_Witness ==
    /\ LastKeychainCall("GetGenericPassword")
    /\ keychain.calls = 3
    /\ keychain.last.err = Nil
    /\ keychain.last.got = SomeBytes(Naww)
    /\ \E it \in keychain.items :
          /\ it.service = keychain.last.query.service
          /\ it.account = keychain.last.query.account
          /\ it.data = SomeBytes(Naww)

-----------------------------------------------------------------------------
(* Properties of the protection attributes of an Item                       *)

\* the last call on the item was o
LastItemCall(o) == kcItem.last.op = o

\* C26: after a successful SetAccessControl the item holds the access-control
\* attribute, made from the protection level and flags given, and no longer
\* holds the accessible attribute, whether or not SetAccessible had been
\* called before.
C26_AccessControlReplacesAccessible ==
    (LastItemCall("SetAccessControl") /\ kcItem.last.err = Nil) =>
        /\ AccessControlKey \in DOMAIN kcItem.attr
        /\ AccessibleKey \notin DOMAIN kcItem.attr
        /\ kcItem.attr[AccessControlKey] =
              TypeRef(accessibleTypeRef[kcItem.last.accessible].ref, kcItem.last.flags)
        /\ \A k \in DOMAIN kcItem.before \ {AccessibleKey, AccessControlKey} :
              k \in DOMAIN kcItem.attr /\ kcItem.attr[k] = kcItem.before[k]

\* SetAccessControl succeeded on an item that held the accessible attribute
C26_Witness ==
    /\ LastItemCall("SetAccessControl")
    /\ kcItem.last.err = Nil
    /\ AccessibleKey \in DOMAIN kcItem.before
    /\ AccessControlKey \notin DOMAIN kcItem.before
    /\ AccessControlKey \in DOMAIN kcItem.attr

\* C27: SetAccessControl with an accessible value that is not a known
\* protection level returns an "invalid accessible value" error and leaves
\* the attributes of the item unchanged.
C27_InvalidAccessibleChangesNothing ==
    (LastItemCall("SetAccessControl")
       /\ kcItem.last.accessible \notin DOMAIN accessibleTypeRef) =>
        /\ kcItem.last.err = Errorf("invalid accessible value: %d", kcItem.last.accessible)
        /\ kcItem.attr = kcItem.before

\* SetAccessControl was called with Accessible(999) on an item that held the
\* accessible attribute, and the item holds it still
C27_Witness ==
    /\ LastItemCall("SetAccessControl")
    /\ kcItem.last.accessible = UnknownAccessible
    /\ kcItem.last.err # Nil
    /\ AccessibleKey \in DOMAIN kcItem.before
    /\ AccessibleKey \in DOMAIN kcItem.attr

\* C30: after any sequence of SetAccessible and SetAccessControl calls the
\* item never holds both the accessible attribute and the access-control
\* attribute.
C30_NeverBothAttributes ==
    ~(AccessibleKey \in DOMAIN kcItem.attr /\ AccessControlKey \in DOMAIN kcItem.attr)

-----------------------------------------------------------------------------
(* Properties of the prompt state machine                                   *)

\* the terminal states the prompt state machine names
NamedTerminals == {"Completed", "Dismissed", "TimedOut"}

\* a call of c starts in this step
CallStarts(c) == budget'[c] < budget[c]

\* the states a wait is in agree with where the caller is: it is in the wait
\* loop exactly while Prompting, on a handle that is not the null prompt and
\* after one begin-interaction call
WaitingIsPrompting ==
    \A c \in Callers :
        /\ pc[c] = "waiting" <=> pstate[c] = "Prompting"
        /\ pstate[c] = "Prompting" => prompt[c] # NullPrompt /\ hist[c].begins = 1

\* within a call the state changes only from Prompting to one of the states
\* of ends, and a call on a handle that is not the null prompt starts in one
\* of the states of starts
Transitions(starts, ends) ==
    \A c \in Callers :
        /\ (CallStarts(c) /\ prompt'[c] # NullPrompt) => pstate'[c] \in starts
        /\ (~CallStarts(c) /\ pstate'[c] # pstate[c]) =>
              /\ pstate[c] = "Prompting"
              /\ pstate'[c] \in ends
              /\ pc'[c] = "done"

\* once the wait of c has ended, c takes no signal from the channel and makes
\* no call until its next operation starts
TerminalIsFinal ==
    \A c \in Callers :
        (pc[c] = "done" /\ ~CallStarts(c)) =>
            /\ pstate'[c] = pstate[c]
            /\ pwRet'[c] = pwRet[c]
            /\ hist'[c] = hist[c]
            /\ (\A d \in Callers : pc[d] # "waiting") => Len(signalCh') >= Len(signalCh)

\* C28: every prompt-wait for a non-null handle goes through the prompt state
\* machine exactly once: it is Prompting, from Prompting it goes to exactly
\* one of Completed, Dismissed or TimedOut, there is no other transition, and
\* in a terminal state it takes no further signal and makes no further call.
C28_PromptStateMachine ==
    /\ []WaitingIsPrompting
    /\ [][Transitions({"Prompting"}, NamedTerminals)]_vars
    /\ [][TerminalIsFinal]_vars

\* C28 (amended): a prompt-wait for a non-null handle whose begin-interaction
\* call succeeds is Prompting, and ends with an error at once when that call
\* fails; from Prompting it goes to exactly one of Completed, Dismissed,
\* TimedOut or the failure to decode the signal taken, there is no other
\* transition, and once ended it takes no further signal and makes no further
\* call.
C28_PromptStateMachineWithFailures ==
    /\ []WaitingIsPrompting
    /\ [][Transitions({"Prompting", "BeginFailed"},
                      NamedTerminals \cup {"DecodeFailed"})]_vars
    /\ [][TerminalIsFinal]_vars

\* a wait on a prompt has ended Dismissed after taking one signal, with
\* another signal left in the channel
C28_Witness ==
    \E c \in Returned :
        /\ prompt[c] # NullPrompt
        /\ pstate[c] = "Dismissed"
        /\ hist[c].begins = 1
        /\ hist[c].recvs = 1
        /\ signalCh # << >>

\* the prompts the daemon made before the prompt of the operation c is in
EarlierPrompts(c) ==
    {PromptPaths[i] : i \in {j \in 1 .. daemon.prompts : PromptPaths[j] # prompt[c]}}

\* C29: over any sequence of operations on one service, the result a
\* prompt-wait returns comes from a signal emitted for the prompt of that
\* operation: a completion left in the channel by an earlier prompt never
\* completes, dismisses or otherwise ends the wait of a later operation.
C29_NoStaleCompletion ==
    \A c \in EndedBySignal :
        /\ hist[c].endedBy.path \notin EarlierPrompts(c)
        /\ pwRet[c].state \in {"Completed", "Dismissed", "DecodeFailed"} =>
              hist[c].endedBy.path = prompt[c]

====
